---- MODULE Spec2Model ----
(***************************************************************************)
(* A model of the OpenGL core video driver (gfx/drivers/gl_core.c) and of  *)
(* the slang preset loader of its filter chain                             *)
(* (gfx/drivers_shader/shader_gl_core.cpp).                                *)
(*                                                                         *)
(* The specifications of the module share its variables:                  *)
(*   LoaderSpec  gl_core_filter_chain_create_from_preset, one loop         *)
(*               iteration per step, on presets and compiler outputs drawn *)
(*               from bounded sets;                                        *)
(*   Spec        the driver's callbacks (init, frame, set_shader,          *)
(*               set_viewport, set_aspect_ratio, get_current_shader, free) *)
(*               on one handle, in plain windows;                          *)
(*   ViewSpec    the callbacks that set the viewport, on every video_info  *)
(*               and frontend answer drawn;                                *)
(*   AnyPresetSpec  LoaderSpec with presets of no pass as well;            *)
(*   ChainSpec   the filter chain's own state under the driver's frames;   *)
(*   MipSpec     the textures made from images;                            *)
(*   TableSpec   every callback of the driver table and of the poke        *)
(*               interface on one handle;                                  *)
(*   RingSpec    the texture ring under frames of two sizes;               *)
(*   InfoSpec    the stored viewport read back under every window size.    *)
(*                                                                         *)
(* Representation.  A C string is a sequence of characters (small          *)
(* numbers).  A float is a fixed-point integer counted in units of         *)
(* 1/FixOne, so 1.0f is FixOne.  A pointer that may be null is a sequence  *)
(* of at most one element, or a number that is 0 for the null pointer.     *)
(***************************************************************************)
EXTENDS Integers, Sequences, FiniteSets, TLC

(***************************************************************************)
(* Bounds of the model.                                                    *)
(***************************************************************************)
\* Most passes a parsed preset declares.
MaxPasses == 2
\* Most "#pragma parameter" declarations one load sees, over all passes.
MaxDecls == 3
\* Most lookup textures a parsed preset declares.
MaxLuts == 1
\* Capacity of the preset's parameter table (GFX_MAX_PARAMETERS, scaled down:
\* the header that sets it is not part of the sources modelled).
GFX_MAX_PARAMETERS == 2
\* sizeof(param.id) and sizeof(param.desc), scaled down likewise: a field of
\* size n holds n - 1 characters and the terminating NUL.
IdSize == 2
DescSize == 2
\* The fixed-point unit: the integer that stands for 1.0f.
FixOne == 2

Min(a, b) == IF a < b THEN a ELSE b
Max(a, b) == IF a > b THEN a ELSE b

(***************************************************************************)
(* Strings.                                                                *)
(***************************************************************************)
\* strlcpy(dst, src, size): dst receives at most size - 1 characters of src.
strlcpy(src, size) ==
    SubSeq(src, 1, Min(Len(src), size - 1))

\* A string of n characters: n - 1 times `fill`, then `last`.
Str(n, fill, last) ==
    [k \in 1..n |-> IF k = n THEN last ELSE fill]

\* Parameter ids a shader may declare: two that fit the id field and two
\* that are one character too long for it and differ in that last character.
ShortIds == {Str(1, 1, 1), Str(1, 1, 2)}
LongIds == {Str(IdSize, 1, 1), Str(IdSize, 1, 2)}
ParamIds == ShortIds \cup LongIds

\* Parameter descriptions: two that fit the desc field, one too long for it.
ShortDescs == {Str(1, 1, 1), Str(1, 1, 2)}
LongDescs == {Str(DescSize, 1, 1)}
ParamDescs == ShortDescs \cup LongDescs

(***************************************************************************)
(* "#pragma parameter" declarations, as the shader compiler reports them   *)
(* (glslang_meta::parameters): id and desc are std::string, the rest float.*)
(***************************************************************************)
MetaParam(id, desc, initial, minimum, maximum, step) ==
    [id |-> id, desc |-> desc, initial |-> initial, minimum |-> minimum,
     maximum |-> maximum, step |-> step]

BaseDecl == MetaParam(Str(1, 1, 1), Str(1, 1, 1), FixOne, 0, 2 * FixOne, 1)

\* The declarations drawn: the base declaration changed in one field.
DeclVariants ==
    {[BaseDecl EXCEPT !.id = s] : s \in ParamIds}
    \cup {[BaseDecl EXCEPT !.desc = s] : s \in ParamDescs}
    \cup {[BaseDecl EXCEPT !.initial = 0],
          [BaseDecl EXCEPT !.minimum = 1],
          [BaseDecl EXCEPT !.maximum = FixOne],
          [BaseDecl EXCEPT !.step = 2]}

\* All sequences over S of length at most n.
RECURSIVE SeqsUpTo(_, _)
SeqsUpTo(S, n) ==
    IF n = 0 THEN {<< >>}
    ELSE LET shorter == SeqsUpTo(S, n - 1)
         IN  shorter \cup {Append(s, x) : s \in {t \in shorter : Len(t) = n - 1}, x \in S}

(***************************************************************************)
(* The parsed preset (struct video_shader, struct video_shader_pass).      *)
(***************************************************************************)
ScaleTypes == {"RARCH_SCALE_INPUT", "RARCH_SCALE_ABSOLUTE", "RARCH_SCALE_VIEWPORT"}
FilterTypes == {"RARCH_FILTER_UNSPEC", "RARCH_FILTER_LINEAR", "RARCH_FILTER_NEAREST"}
WrapTypes == {"RARCH_WRAP_BORDER", "RARCH_WRAP_EDGE", "RARCH_WRAP_REPEAT",
              "RARCH_WRAP_MIRRORED_REPEAT"}

BaseFbo ==
    [valid |-> FALSE, srgb_fbo |-> FALSE, fp_fbo |-> FALSE,
     type_x |-> "RARCH_SCALE_INPUT", type_y |-> "RARCH_SCALE_INPUT",
     scale_x |-> FixOne, scale_y |-> FixOne, abs_x |-> 320, abs_y |-> 200]

BasePass ==
    [alias |-> "", filter |-> "RARCH_FILTER_UNSPEC", wrap |-> "RARCH_WRAP_BORDER",
     mipmap |-> FALSE, frame_count_mod |-> 0, fbo |-> BaseFbo]

\* Passes that differ from the base pass in fbo.valid and mipmap_input only.
CorePasses ==
    {[BasePass EXCEPT !.mipmap = m, !.fbo.valid = v] : m \in BOOLEAN, v \in BOOLEAN}

\* Passes that vary one group of settings: the scale group, the render
\* target format group, the filter / wrap / alias group.
ScalePasses ==
    {[BasePass EXCEPT !.fbo.valid = v, !.fbo.type_x = tx, !.fbo.type_y = ty,
                      !.fbo.scale_x = sc[1], !.fbo.scale_y = sc[2]] :
        v \in BOOLEAN, tx \in ScaleTypes, ty \in ScaleTypes,
        sc \in {<<2 * FixOne, 2 * FixOne>>, <<2 * FixOne, FixOne>>, <<1, 3>>}}

FormatPasses ==
    {[BasePass EXCEPT !.fbo.valid = v, !.fbo.srgb_fbo = s, !.fbo.fp_fbo = f] :
        v \in BOOLEAN, s \in BOOLEAN, f \in BOOLEAN}

FilterPasses ==
    {[BasePass EXCEPT !.filter = f, !.wrap = w, !.alias = a, !.frame_count_mod = m] :
        f \in FilterTypes, w \in WrapTypes, a \in {"", "alias"}, m \in {0, 2}}

RichPasses == (ScalePasses \cup FormatPasses \cup FilterPasses) \ CorePasses

\* The preset files drawn: passes of the core kind, at most one of them
\* replaced by a pass of the rich kind.
ParsedPassLists ==
    LET cores == SeqsUpTo(CorePasses, MaxPasses) \ {<< >>}
    IN  cores \cup UNION {{[c EXCEPT ![k] = r] : k \in 1..Len(c), r \in RichPasses} :
                            c \in cores}

IsBasePreset(passes) ==
    \A k \in 1..Len(passes) : passes[k] = BasePass

(***************************************************************************)
(* The shader compiler's output for one pass (glslang_output): whether     *)
(* glslang_compile_shader succeeded, and the reflection metadata.          *)
(***************************************************************************)
SlangFormats == {"SLANG_FORMAT_UNKNOWN", "SLANG_FORMAT_R8G8B8A8_UNORM",
                 "SLANG_FORMAT_R32_SFLOAT"}

Output(ok, params, name, rt_format) ==
    [ok |-> ok, vertex |-> "slang_vertex", fragment |-> "slang_fragment",
     meta |-> [parameters |-> params, name |-> name, rt_format |-> rt_format]]

BaseOutput == Output(TRUE, << >>, "", "SLANG_FORMAT_UNKNOWN")
FailedOutput == Output(FALSE, << >>, "", "SLANG_FORMAT_UNKNOWN")

\* The outputs drawn for a pass: a base preset's passes declare parameters
\* (at most `room` of them); a rich pass gets every name and format; a
\* compile failure is always possible.
OutputsFor(passes, k, room) ==
    {FailedOutput}
    \cup (IF IsBasePreset(passes)
          THEN {Output(TRUE, ps, "", "SLANG_FORMAT_UNKNOWN") :
                   ps \in SeqsUpTo(DeclVariants, Min(room, MaxDecls))}
          ELSE IF passes[k] \in CorePasses
          THEN {BaseOutput}
          ELSE {Output(TRUE, << >>, n, f) : n \in {"", "name"}, f \in SlangFormats})

(***************************************************************************)
(* Conversions of the loader.                                              *)
(***************************************************************************)
wrap_to_address(type) ==
    CASE type = "RARCH_WRAP_BORDER" -> "GL_CORE_FILTER_CHAIN_ADDRESS_CLAMP_TO_BORDER"
      [] type = "RARCH_WRAP_REPEAT" -> "GL_CORE_FILTER_CHAIN_ADDRESS_REPEAT"
      [] type = "RARCH_WRAP_MIRRORED_REPEAT" ->
             "GL_CORE_FILTER_CHAIN_ADDRESS_MIRRORED_REPEAT"
      [] OTHER -> "GL_CORE_FILTER_CHAIN_ADDRESS_CLAMP_TO_EDGE"

\* The GL internal format of a slang format; "0" is the GLenum 0.
convert_glslang_format(fmt) ==
    CASE fmt = "SLANG_FORMAT_R8_UNORM" -> "GL_R8"
      [] fmt = "SLANG_FORMAT_R8_SINT" -> "GL_R8I"
      [] fmt = "SLANG_FORMAT_R8_UINT" -> "GL_R8UI"
      [] fmt = "SLANG_FORMAT_R8G8_UNORM" -> "GL_RG8"
      [] fmt = "SLANG_FORMAT_R8G8_SINT" -> "GL_RG8I"
      [] fmt = "SLANG_FORMAT_R8G8_UINT" -> "GL_RG8UI"
      [] fmt = "SLANG_FORMAT_R8G8B8A8_UNORM" -> "GL_RGBA8"
      [] fmt = "SLANG_FORMAT_R8G8B8A8_SINT" -> "GL_RGBA8I"
      [] fmt = "SLANG_FORMAT_R8G8B8A8_UINT" -> "GL_RGBA8UI"
      [] fmt = "SLANG_FORMAT_R8G8B8A8_SRGB" -> "GL_SRGB8"
      [] fmt = "SLANG_FORMAT_A2B10G10R10_UNORM_PACK32" -> "GL_RGB10_A2"
      [] fmt = "SLANG_FORMAT_A2B10G10R10_UINT_PACK32" -> "GL_RGB10_A2UI"
      [] fmt = "SLANG_FORMAT_R16_UINT" -> "GL_R16UI"
      [] fmt = "SLANG_FORMAT_R16_SINT" -> "GL_R16I"
      [] fmt = "SLANG_FORMAT_R16_SFLOAT" -> "GL_R16F"
      [] fmt = "SLANG_FORMAT_R16G16_UINT" -> "GL_RG16UI"
      [] fmt = "SLANG_FORMAT_R16G16_SINT" -> "GL_RG16I"
      [] fmt = "SLANG_FORMAT_R16G16_SFLOAT" -> "GL_RG16F"
      [] fmt = "SLANG_FORMAT_R16G16B16A16_UINT" -> "GL_RGBA16UI"
      [] fmt = "SLANG_FORMAT_R16G16B16A16_SINT" -> "GL_RGBA16I"
      [] fmt = "SLANG_FORMAT_R16G16B16A16_SFLOAT" -> "GL_RGBA16F"
      [] fmt = "SLANG_FORMAT_R32_UINT" -> "GL_R32UI"
      [] fmt = "SLANG_FORMAT_R32_SINT" -> "GL_R32I"
      [] fmt = "SLANG_FORMAT_R32_SFLOAT" -> "GL_R32F"
      [] fmt = "SLANG_FORMAT_R32G32_UINT" -> "GL_RG32UI"
      [] fmt = "SLANG_FORMAT_R32G32_SINT" -> "GL_RG32I"
      [] fmt = "SLANG_FORMAT_R32G32_SFLOAT" -> "GL_RG32F"
      [] fmt = "SLANG_FORMAT_R32G32B32A32_UINT" -> "GL_RGBA32UI"
      [] fmt = "SLANG_FORMAT_R32G32B32A32_SINT" -> "GL_RGBA32I"
      [] fmt = "SLANG_FORMAT_R32G32B32A32_SFLOAT" -> "GL_RGBA32F"
      [] OTHER -> "0"

\* The spacing of the floats around the unsigned n: 1 below 2^24.
RECURSIVE FloatUlp(_)
FloatUlp(n) ==
    IF n < 2^24 THEN 1 ELSE 2 * FloatUlp(n \div 2)

\* float(n) for an unsigned n: n rounded to 24 significant bits, ties to even.
FloatOfUnsigned(n) ==
    LET ulp == FloatUlp(n)
        q == n \div ulp
        r == n % ulp
    IN  IF 2 * r > ulp \/ (2 * r = ulp /\ q % 2 = 1) THEN (q + 1) * ulp ELSE q * ulp

\* ~0u, "no limit on the mip levels".  TLC's integers are 32-bit signed, so
\* the largest of them stands for the largest unsigned.
UINT_MAX == 2147483647

(***************************************************************************)
(* The filter chain under construction, as the loader's calls leave it.    *)
(* A unique_ptr is a sequence of at most one object: << >> is the null     *)
(* pointer, and an object is destroyed when the pointer that owns it goes. *)
(***************************************************************************)
\* The pass-info fields as the loop initialises them.
InitialPassInfo ==
    [scale_type_x |-> "GL_CORE_FILTER_CHAIN_SCALE_ORIGINAL",
     scale_type_y |-> "GL_CORE_FILTER_CHAIN_SCALE_ORIGINAL",
     scale_x |-> 0, scale_y |-> 0, rt_format |-> "0",
     source_filter |-> "GL_CORE_FILTER_CHAIN_LINEAR",
     mip_filter |-> "GL_CORE_FILTER_CHAIN_LINEAR",
     address |-> "GL_CORE_FILTER_CHAIN_ADDRESS_REPEAT",
     max_levels |-> 0]

\* A pass of the chain no call has configured yet.
EmptyPass ==
    [vertex |-> "", fragment |-> "", frame_count_period |-> 0, name |-> "",
     has_info |-> FALSE, info |-> InitialPassInfo, parameters |-> << >>]

\* new gl_core_filter_chain(): no pass, no static texture, no preset.
NewChain ==
    [passes |-> << >>, luts |-> 0, shader_preset |-> << >>, initialized |-> FALSE]

\* The chain's passes grown to hold pass number `pass` (counted from 0).
WithPass(chain, pass) ==
    [chain EXCEPT !.passes =
        [k \in 1..Max(Len(@), pass + 1) |-> IF k <= Len(@) THEN @[k] ELSE EmptyPass]]

\* chain->add_parameter(pass, parameter_index, id)
add_parameter(chain, pass, parameter_index, id) ==
    [WithPass(chain, pass) EXCEPT !.passes[pass + 1].parameters =
        Append(@, [id |-> id, index |-> parameter_index])]

\* chain->set_shader(pass, stage, spirv, words), for both stages
set_shaders(chain, pass, vertex, fragment) ==
    [WithPass(chain, pass) EXCEPT !.passes[pass + 1].vertex = vertex,
                                  !.passes[pass + 1].fragment = fragment]

\* chain->set_frame_count_period(pass, period)
set_frame_count_period(chain, pass, period) ==
    [WithPass(chain, pass) EXCEPT !.passes[pass + 1].frame_count_period = period]

\* chain->set_pass_name(pass, name)
set_pass_name(chain, pass, name) ==
    [WithPass(chain, pass) EXCEPT !.passes[pass + 1].name = name]

\* chain->set_pass_info(pass, info)
set_pass_info(chain, pass, info) ==
    [WithPass(chain, pass) EXCEPT !.passes[pass + 1].has_info = TRUE,
                                  !.passes[pass + 1].info = info]

(***************************************************************************)
(* gl_core_filter_chain_create_from_preset, in steps.  The loader's state: *)
(*   pc      "passes" (in the loop, about to run iteration i), "finish"    *)
(*           (the loop is over), "done" (returned), "failed" (returned     *)
(*           nullptr);                                                     *)
(*   shader  the video_shader being filled; chain the chain being built;   *)
(*   ret     the pointer returned; destroyed the chains destroyed.         *)
(***************************************************************************)
\* Mutant of ReturnNull: the chain is held by a plain pointer, and a failure
\* exit leaves it alive.
ReturnNull_LeakChain(L, reason) ==
    [L EXCEPT !.pc = "failed", !.error = reason, !.ret = << >>]

\* return nullptr: the unique_ptrs of the function destroy what they own.
ReturnNull(L, reason) ==
    [L EXCEPT !.pc = "failed", !.error = reason, !.ret = << >>,
              !.destroyed = L.chain, !.chain = << >>]

\* Lines 568-570 before anything is read: the state the function starts in.
LoaderStart(filter) ==
    [pc |-> "start", error |-> "", filter |-> filter, i |-> 0,
     last_pass_is_fbo |-> FALSE, reads |-> << >>,
     shader |-> [passes |-> << >>, luts |-> 0, parameters |-> << >>,
                 num_parameters |-> 0],
     chain |-> << >>, ret |-> << >>, destroyed |-> << >>]

\* gl_core_filter_chain_load_luts: the textures load in order; the first
\* that fails ends the loading, those before it stay added to the chain.
RECURSIVE load_luts(_, _, _)
load_luts(chain, lutsOk, k) ==
    IF k > Len(lutsOk) THEN [ok |-> TRUE, chain |-> chain]
    ELSE IF ~lutsOk[k] THEN [ok |-> FALSE, chain |-> chain]
    ELSE load_luts([chain EXCEPT !.luts = @ + 1], lutsOk, k + 1)

\* Mutant of LastPassIsFbo: the first pass is read instead of the last.
LastPassIsFbo_FirstPass(passes) ==
    passes[1].fbo.valid

\* shader->passes - 1 in unsigned arithmetic: the index of the pass entry
\* read for last_pass_is_fbo, counted from 0.  With no passes it wraps to
\* the largest unsigned.
LastPassIndex(passes) == IF passes = 0 THEN UINT_MAX ELSE passes - 1

\* bool last_pass_is_fbo = shader->pass[shader->passes - 1].fbo.valid
LastPassIsFbo(passes) ==
    passes[Len(passes)].fbo.valid

\* From the entry of the function to the loop over the passes.
BeginLoad(confOk, parseOk, parsed, lutsOk, filter) ==
    LET L0 == LoaderStart(filter)
        L1 == [L0 EXCEPT !.shader.passes = parsed.passes, !.shader.luts = parsed.luts,
                         !.last_pass_is_fbo = LastPassIsFbo(parsed.passes),
                         !.reads = <<LastPassIndex(Len(parsed.passes))>>,
                         !.chain = <<NewChain>>]
        luts == load_luts(NewChain, lutsOk, 1)
    IN  IF ~confOk THEN ReturnNull(L0, "conf")
        ELSE IF ~parseOk THEN ReturnNull(L0, "parse")
        ELSE IF parsed.luts # 0 /\ ~luts.ok
        THEN ReturnNull([L1 EXCEPT !.chain = <<luts.chain>>], "lut")
        ELSE [L1 EXCEPT !.pc = "passes",
                        !.chain = IF parsed.luts # 0 THEN <<luts.chain>> ELSE <<NewChain>>,
                        !.shader.num_parameters = 0]

\* The same for a preset that parsed with no passes.  The read of
\* pass[shader->passes - 1] is outside the array: it faults, or it gives
\* whatever bool `found` lies there.  The loop over the passes runs zero
\* times.
BeginLoadNoPasses(parsed_luts, lutsOk, filter, found) ==
    LET L0 == LoaderStart(filter)
        L1 == [L0 EXCEPT !.shader.luts = parsed_luts,
                         !.last_pass_is_fbo = found,
                         !.reads = <<LastPassIndex(0)>>,
                         !.chain = <<NewChain>>]
        luts == load_luts(NewChain, lutsOk, 1)
    IN  IF parsed_luts # 0 /\ ~luts.ok
        THEN ReturnNull([L1 EXCEPT !.chain = <<luts.chain>>], "lut")
        ELSE [L1 EXCEPT !.pc = "finish",
                        !.chain = IF parsed_luts # 0 THEN <<luts.chain>> ELSE <<NewChain>>,
                        !.shader.num_parameters = 0]

\* The read outside the array ends the process.
BeginLoadNoPassesFault(filter) ==
    [LoaderStart(filter) EXCEPT !.pc = "fault", !.reads = <<LastPassIndex(0)>>]

\* The index in the table of the first registered parameter whose stored
\* id equals the declared id, 0 when there is none (find_if).
FindParameter(shader, id) ==
    LET hits == {k \in 1..shader.num_parameters : shader.parameters[k].id = id}
    IN  IF hits = {} THEN 0 ELSE CHOOSE k \in hits : \A j \in hits : k <= j

\* One iteration of the loop over output.meta.parameters, in pass L.i.
RegisterParameter(L, meta_param) ==
    LET shader == L.shader
        itr == FindParameter(shader, meta_param.id)
        param == [id |-> strlcpy(meta_param.id, IdSize),
                  desc |-> strlcpy(meta_param.desc, DescSize),
                  current |-> meta_param.initial,
                  initial |-> meta_param.initial,
                  minimum |-> meta_param.minimum,
                  maximum |-> meta_param.maximum,
                  step |-> meta_param.step]
    IN  IF shader.num_parameters >= GFX_MAX_PARAMETERS
        THEN ReturnNull(L, "limit")
        ELSE IF itr # 0
        THEN IF \/ meta_param.desc # shader.parameters[itr].desc
                \/ meta_param.initial # shader.parameters[itr].initial
                \/ meta_param.minimum # shader.parameters[itr].minimum
                \/ meta_param.maximum # shader.parameters[itr].maximum
                \/ meta_param.step # shader.parameters[itr].step
             THEN ReturnNull(L, "mismatch")
             ELSE [L EXCEPT !.chain[1] = add_parameter(@, L.i, itr - 1, meta_param.id)]
        ELSE [L EXCEPT !.shader.parameters = Append(@, param),
                       !.chain[1] = add_parameter(@, L.i, shader.num_parameters,
                                                  meta_param.id),
                       !.shader.num_parameters = @ + 1]

\* The loop over output.meta.parameters: it ends at the first failure.
RECURSIVE RegisterParameters(_, _, _)
RegisterParameters(L, params, k) ==
    IF k > Len(params) \/ L.pc = "failed" THEN L
    ELSE RegisterParameters(RegisterParameter(L, params[k]), params, k + 1)

\* Mutant of FboScale: RARCH_SCALE_INPUT gives the viewport scale type and
\* RARCH_SCALE_VIEWPORT the source scale type.
FboScale_InputViewportSwapped(type, scale, abs, info_type, info_scale) ==
    CASE type = "RARCH_SCALE_INPUT" ->
             [type |-> "GL_CORE_FILTER_CHAIN_SCALE_VIEWPORT", scale |-> scale]
      [] type = "RARCH_SCALE_ABSOLUTE" ->
             [type |-> "GL_CORE_FILTER_CHAIN_SCALE_ABSOLUTE",
              scale |-> FloatOfUnsigned(abs) * FixOne]
      [] type = "RARCH_SCALE_VIEWPORT" ->
             [type |-> "GL_CORE_FILTER_CHAIN_SCALE_SOURCE", scale |-> scale]
      [] OTHER -> [type |-> info_type, scale |-> info_scale]

\* One axis of an fbo.valid pass: the scale type and factor the preset asks.
FboScale(type, scale, abs, info_type, info_scale) ==
    CASE type = "RARCH_SCALE_INPUT" ->
             [type |-> "GL_CORE_FILTER_CHAIN_SCALE_SOURCE", scale |-> scale]
      [] type = "RARCH_SCALE_ABSOLUTE" ->
             [type |-> "GL_CORE_FILTER_CHAIN_SCALE_ABSOLUTE",
              scale |-> FloatOfUnsigned(abs) * FixOne]
      [] type = "RARCH_SCALE_VIEWPORT" ->
             [type |-> "GL_CORE_FILTER_CHAIN_SCALE_VIEWPORT", scale |-> scale]
      [] OTHER -> [type |-> info_type, scale |-> info_scale]

\* Mutant of UnscaledType: every pass that is not fbo.valid scales from its
\* source, the last one too.
UnscaledType_AlwaysSource(last) ==
    "GL_CORE_FILTER_CHAIN_SCALE_SOURCE"

\* The scale type of a pass that is not fbo.valid: the viewport's size for
\* the last pass of the preset, its source's size for the others.
UnscaledType(last) ==
    IF last THEN "GL_CORE_FILTER_CHAIN_SCALE_VIEWPORT"
    ELSE "GL_CORE_FILTER_CHAIN_SCALE_SOURCE"

\* Mutant of PassInfoFor: the mip levels follow the pass's own mipmap_input
\* instead of the next pass's.
PassInfoFor_OwnMipmap(passes, i, output, filter) ==
    LET pass == passes[i + 1]
        has_next == i + 1 < Len(passes)
        last == (i + 1 = Len(passes))
        source_filter ==
            IF pass.filter = "RARCH_FILTER_UNSPEC" THEN filter
            ELSE IF pass.filter = "RARCH_FILTER_LINEAR"
            THEN "GL_CORE_FILTER_CHAIN_LINEAR"
            ELSE "GL_CORE_FILTER_CHAIN_NEAREST"
        max_levels == IF has_next /\ pass.mipmap THEN UINT_MAX ELSE 1
        mip_filter ==
            IF pass.filter # "RARCH_FILTER_NEAREST" /\ max_levels > 1
            THEN "GL_CORE_FILTER_CHAIN_LINEAR"
            ELSE "GL_CORE_FILTER_CHAIN_NEAREST"
        \* Set a reasonable default.
        meta_format ==
            IF output.meta.rt_format = "SLANG_FORMAT_UNKNOWN"
            THEN "SLANG_FORMAT_R8G8B8A8_UNORM"
            ELSE output.meta.rt_format
        \* Preset overrides shader.
        fbo_format ==
            IF pass.fbo.srgb_fbo THEN "SLANG_FORMAT_R8G8B8A8_SRGB"
            ELSE IF pass.fbo.fp_fbo THEN "SLANG_FORMAT_R16G16B16A16_SFLOAT"
            ELSE meta_format
        x == FboScale(pass.fbo.type_x, pass.fbo.scale_x, pass.fbo.abs_x,
                      InitialPassInfo.scale_type_x, InitialPassInfo.scale_x)
        y == FboScale(pass.fbo.type_y, pass.fbo.scale_y, pass.fbo.abs_y,
                      InitialPassInfo.scale_type_y, InitialPassInfo.scale_y)
        common == [InitialPassInfo EXCEPT !.source_filter = source_filter,
                                          !.address = wrap_to_address(pass.wrap),
                                          !.max_levels = max_levels,
                                          !.mip_filter = mip_filter]
    IN  IF ~pass.fbo.valid
        THEN [common EXCEPT
                 !.scale_type_x = UnscaledType(last),
                 !.scale_type_y = UnscaledType(last),
                 !.scale_x = FixOne,
                 !.scale_y = FixOne,
                 !.rt_format = IF last THEN "0" ELSE convert_glslang_format(meta_format)]
        ELSE [common EXCEPT
                 !.rt_format = convert_glslang_format(fbo_format),
                 !.scale_type_x = x.type, !.scale_x = x.scale,
                 !.scale_type_y = y.type, !.scale_y = y.scale]

\* The pass info of pass i (counted from 0) of `passes`, from the pass's
\* preset entry, the compiler's output for it and the driver's filter.
PassInfoFor(passes, i, output, filter) ==
    LET pass == passes[i + 1]
        has_next == i + 1 < Len(passes)
        last == (i + 1 = Len(passes))
        source_filter ==
            IF pass.filter = "RARCH_FILTER_UNSPEC" THEN filter
            ELSE IF pass.filter = "RARCH_FILTER_LINEAR"
            THEN "GL_CORE_FILTER_CHAIN_LINEAR"
            ELSE "GL_CORE_FILTER_CHAIN_NEAREST"
        max_levels == IF has_next /\ passes[i + 2].mipmap THEN UINT_MAX ELSE 1
        mip_filter ==
            IF pass.filter # "RARCH_FILTER_NEAREST" /\ max_levels > 1
            THEN "GL_CORE_FILTER_CHAIN_LINEAR"
            ELSE "GL_CORE_FILTER_CHAIN_NEAREST"
        \* Set a reasonable default.
        meta_format ==
            IF output.meta.rt_format = "SLANG_FORMAT_UNKNOWN"
            THEN "SLANG_FORMAT_R8G8B8A8_UNORM"
            ELSE output.meta.rt_format
        \* Preset overrides shader.
        fbo_format ==
            IF pass.fbo.srgb_fbo THEN "SLANG_FORMAT_R8G8B8A8_SRGB"
            ELSE IF pass.fbo.fp_fbo THEN "SLANG_FORMAT_R16G16B16A16_SFLOAT"
            ELSE meta_format
        x == FboScale(pass.fbo.type_x, pass.fbo.scale_x, pass.fbo.abs_x,
                      InitialPassInfo.scale_type_x, InitialPassInfo.scale_x)
        y == FboScale(pass.fbo.type_y, pass.fbo.scale_y, pass.fbo.abs_y,
                      InitialPassInfo.scale_type_y, InitialPassInfo.scale_y)
        common == [InitialPassInfo EXCEPT !.source_filter = source_filter,
                                          !.address = wrap_to_address(pass.wrap),
                                          !.max_levels = max_levels,
                                          !.mip_filter = mip_filter]
    IN  IF ~pass.fbo.valid
        THEN [common EXCEPT
                 !.scale_type_x = UnscaledType(last),
                 !.scale_type_y = UnscaledType(last),
                 !.scale_x = FixOne,
                 !.scale_y = FixOne,
                 !.rt_format = IF last THEN "0" ELSE convert_glslang_format(meta_format)]
        ELSE [common EXCEPT
                 !.rt_format = convert_glslang_format(fbo_format),
                 !.scale_type_x = x.type, !.scale_x = x.scale,
                 !.scale_type_y = y.type, !.scale_y = y.scale]

\* Mutant of PassNameFor: the alias is set first and the shader's name
\* after it.
PassNameFor_ShaderWins(chain, i, pass, output) ==
    LET named == IF pass.alias # "" THEN set_pass_name(chain, i, pass.alias) ELSE chain
    IN  IF output.meta.name # "" THEN set_pass_name(named, i, output.meta.name)
        ELSE named

\* The pass name the loop leaves: the shader's, overridden by the alias.
PassNameFor(chain, i, pass, output) ==
    LET named == IF output.meta.name # "" THEN set_pass_name(chain, i, output.meta.name)
                 ELSE chain
    IN  IF pass.alias # "" THEN set_pass_name(named, i, pass.alias) ELSE named

\* One iteration of the loop over the preset's passes, for pass L.i, with
\* `output` what glslang_compile_shader gives for the pass's source.
LoadPass(L, output) ==
    LET i == L.i
        pass == L.shader.passes[i + 1]
        P == RegisterParameters(L, output.meta.parameters, 1)
        c1 == set_shaders(P.chain[1], i, output.vertex, output.fragment)
        c2 == set_frame_count_period(c1, i, pass.frame_count_mod)
        c3 == PassNameFor(c2, i, pass, output)
        c4 == set_pass_info(c3, i, PassInfoFor(L.shader.passes, i, output, L.filter))
    IN  IF ~output.ok THEN ReturnNull(L, "compile")
        ELSE IF P.pc = "failed" THEN P
        ELSE [P EXCEPT !.chain = <<c4>>,
                       !.i = i + 1,
                       !.pc = IF i + 1 < Len(L.shader.passes) THEN "passes" ELSE "finish"]

\* The pass info of the pass appended after a last pass that is fbo.valid.
FinalPassInfo(filter) ==
    [scale_type_x |-> "GL_CORE_FILTER_CHAIN_SCALE_VIEWPORT",
     scale_type_y |-> "GL_CORE_FILTER_CHAIN_SCALE_VIEWPORT",
     scale_x |-> FixOne, scale_y |-> FixOne, rt_format |-> "0",
     source_filter |-> filter,
     mip_filter |-> "GL_CORE_FILTER_CHAIN_NEAREST",
     address |-> "GL_CORE_FILTER_CHAIN_ADDRESS_CLAMP_TO_EDGE",
     max_levels |-> 0]

\* if (last_pass_is_fbo): the pass-through pass at index shader->passes.
AppendFinalPass(L) ==
    LET n == Len(L.shader.passes)
        c1 == set_pass_info(L.chain[1], n, FinalPassInfo(L.filter))
        c2 == set_shaders(c1, n, "opaque_vert", "opaque_frag")
    IN  IF L.last_pass_is_fbo THEN [L EXCEPT !.chain = <<c2>>] ELSE L

\* From the end of the loop to the return: the final pass, the current
\* parameter values, the preset handed to the chain, chain->init().
EndLoad(L, resolveOk, initOk) ==
    LET F == AppendFinalPass(L)
        S == [F EXCEPT !.chain[1].shader_preset = <<F.shader>>]
    IN  IF ~resolveOk THEN ReturnNull(F, "resolve")
        ELSE IF ~initOk THEN ReturnNull(S, "init")
        ELSE [S EXCEPT !.pc = "done",
                       !.ret = <<[S.chain[1] EXCEPT !.initialized = TRUE]>>,
                       !.chain = << >>]

(***************************************************************************)
(* Output sizes (Pass::set_pass_info, whose body is not among the sources: *)
(* the rule table of the specification, section 4.2).  Sizes are in        *)
(* pixels; a scale factor is fixed-point.                                  *)
(***************************************************************************)
\* round(size * scale), halves rounded away from zero (roundf).
RoundScale(size, scale) ==
    (2 * size * scale + FixOne) \div (2 * FixOne)

\* One axis of a pass's output size.
AxisSize(type, scale, source, viewport) ==
    CASE type = "GL_CORE_FILTER_CHAIN_SCALE_SOURCE" -> RoundScale(source, scale)
      [] type = "GL_CORE_FILTER_CHAIN_SCALE_VIEWPORT" -> RoundScale(viewport, scale)
      [] type = "GL_CORE_FILTER_CHAIN_SCALE_ABSOLUTE" -> scale \div FixOne
      [] OTHER -> viewport

\* The output size of a pass with pass info `info`.
get_output_size(info, source, viewport) ==
    [width |-> AxisSize(info.scale_type_x, info.scale_x, source.width, viewport.width),
     height |-> AxisSize(info.scale_type_y, info.scale_y, source.height, viewport.height)]

\* The output sizes of passes k.. of a chain in one frame: each pass's source
\* is the output of the pass before it, the first pass's the input texture.
RECURSIVE PassOutputSizes(_, _, _, _)
PassOutputSizes(passes, k, source, viewport) ==
    IF k > Len(passes) THEN << >>
    ELSE LET size == get_output_size(passes[k].info, source, viewport)
         IN  <<size>> \o PassOutputSizes(passes, k + 1, size, viewport)

\* A framebuffer before its first set_size: no image.
NewFramebuffer ==
    [size |-> [width |-> 0, height |-> 0], format |-> "0", allocations |-> 0]

\* Framebuffer::set_size: nothing when size and format are unchanged, a new
\* image of the size otherwise.
Framebuffer_set_size(framebuffer, size, format) ==
    IF framebuffer.size = size /\ framebuffer.format = format THEN framebuffer
    ELSE [size |-> size, format |-> format,
          allocations |-> framebuffer.allocations + 1]

\* Pass::set_pass_info: the output size of the pass, and its framebuffer
\* set to that size.
Pass_set_pass_info(framebuffer, max_source, viewport, info) ==
    LET size == get_output_size(info, max_source, viewport)
    IN  [size |-> size,
         framebuffer |-> Framebuffer_set_size(framebuffer, size, info.rt_format)]

(***************************************************************************)
(* The loader run to its return, on the files the driver is asked to load. *)
(***************************************************************************)
\* Most filter chains created over one behaviour of the driver.
MaxChains == 2

\* What a path names: whether the file opens and parses, the preset parsed
\* from it, the compiler's output per pass, and whether the parameters
\* resolve and the chain initialises.
PresetFile(confOk, parseOk, passes, outputs, resolveOk, initOk) ==
    [confOk |-> confOk, parseOk |-> parseOk,
     parsed |-> [passes |-> passes, luts |-> 0], lutsOk |-> << >>,
     outputs |-> outputs, resolveOk |-> resolveOk, initOk |-> initOk]

\* The paths the driver is handed: a two-pass preset whose last pass is
\* fbo.valid, a preset whose second pass declares the first's parameter
\* with another minimum, and a file that does not open.
PresetFiles ==
    <<PresetFile(TRUE, TRUE, <<BasePass, [BasePass EXCEPT !.fbo.valid = TRUE]>>,
                 <<Output(TRUE, <<BaseDecl>>, "", "SLANG_FORMAT_UNKNOWN"), BaseOutput>>,
                 TRUE, TRUE),
      PresetFile(TRUE, TRUE, <<BasePass, BasePass>>,
                 <<Output(TRUE, <<BaseDecl>>, "", "SLANG_FORMAT_UNKNOWN"),
                   Output(TRUE, <<[BaseDecl EXCEPT !.minimum = 1]>>, "",
                          "SLANG_FORMAT_UNKNOWN")>>, TRUE, TRUE),
      PresetFile(FALSE, FALSE, << >>, << >>, TRUE, TRUE)>>

Paths == 1..Len(PresetFiles)

\* The loop over the passes, to its end or to the first failure.
RECURSIVE LoadPasses(_, _)
LoadPasses(L, outputs) ==
    IF L.pc # "passes" THEN L
    ELSE LoadPasses(LoadPass(L, outputs[L.i + 1]), outputs)

\* The whole call: the loader's state at its return.
gl_core_filter_chain_create_from_preset(file, filter) ==
    LET B == BeginLoad(file.confOk, file.parseOk, file.parsed, file.lutsOk, filter)
        P == LoadPasses(B, file.outputs)
    IN  IF P.pc = "finish" THEN EndLoad(P, file.resolveOk, file.initOk) ELSE P

\* The stock chain (gl_core_filter_chain_create_default, whose body is not
\* among the sources): one pass-through pass scaled to the viewport, no
\* preset; nullptr when the chain's init() fails.
StockChain(filter) ==
    [NewChain EXCEPT
        !.passes = <<[EmptyPass EXCEPT !.vertex = "opaque_vert",
                                       !.fragment = "opaque_frag",
                                       !.has_info = TRUE,
                                       !.info = FinalPassInfo(filter)]>>,
        !.initialized = TRUE]

gl_core_filter_chain_create_default(filter, initOk) ==
    IF initOk THEN <<StockChain(filter)>> ELSE << >>

(***************************************************************************)
(* The driver (gl_core.c).  The driver's world is a record w:              *)
(*   gl     the handle: << >> for NULL, else <<the gl_core_t>>, whose      *)
(*          filter_chain is the number of a chain in the heap, 0 for NULL; *)
(*   heap   every chain handed to the driver so far: <<the chain>>, or     *)
(*          << >> once it is deleted; where it came from; how many times   *)
(*          it was freed;                                                  *)
(*   calls  the operations the callback running has made on the chain and  *)
(*          on the context;                                                *)
(*   result what the function just modelled returned.                      *)
(***************************************************************************)
GL_CORE_NUM_TEXTURES == 4

\* a & b on unsigned values
RECURSIVE BitAnd(_, _)
BitAnd(a, b) ==
    IF a = 0 \/ b = 0 THEN 0
    ELSE (a % 2) * (b % 2) + 2 * BitAnd(a \div 2, b \div 2)

NullViewport == [x |-> 0, y |-> 0, width |-> 0, height |-> 0]
NoTexture == [tex |-> 0, width |-> 0, height |-> 0]

\* One entry of `calls`.
Call(op, chain, live, vp, texture) ==
    [op |-> op, chain |-> chain, live |-> live, vp |-> vp, texture |-> texture]

\* A call on chain number `chain`: `live` tells whether the chain is in the
\* heap and not freed when the call is made.
ChainCall(w, op, chain, vp, texture) ==
    Call(op, chain, chain # 0 /\ w.heap[chain].frees = 0, vp, texture)

Log(w, call) == [w EXCEPT !.calls = Append(@, call)]

\* calloc(1, sizeof(gl_core_t))
NewHandle ==
    [ctx_driver |-> FALSE, filter_chain |-> 0, smooth |-> FALSE,
     keep_aspect |-> FALSE, vp |-> NullViewport, filter_chain_vp |-> NullViewport,
     vp_out_width |-> 0, vp_out_height |-> 0, vao |-> 0,
     textures |-> [i \in 0..(GL_CORE_NUM_TEXTURES - 1) |-> NoTexture],
     textures_index |-> 0, quitting |-> FALSE, should_resize |-> FALSE,
     rotation |-> 0]

NewWorld == [gl |-> << >>, heap |-> << >>, calls |-> << >>, result |-> FALSE]

ChainFilter(w) ==
    IF w.gl[1].smooth THEN "GL_CORE_FILTER_CHAIN_LINEAR"
    ELSE "GL_CORE_FILTER_CHAIN_NEAREST"

\* A chain the loader or the stock constructor returned enters the heap;
\* gl->filter_chain receives its number, or 0 when nothing was returned.
Install(w, made, op, origin) ==
    LET id == IF made = << >> THEN 0 ELSE Len(w.heap) + 1
        h == IF made = << >> THEN w.heap
             ELSE Append(w.heap, [chain |-> made, origin |-> origin, frees |-> 0])
    IN  [w EXCEPT !.heap = h,
                  !.gl[1].filter_chain = id,
                  !.calls = Append(@, Call(op, id, id # 0, NullViewport, NoTexture)),
                  !.result = (id # 0)]

\* Mutant of gl_core_filter_chain_free: the chain is not deleted.
gl_core_filter_chain_free_Leak(w, chain) ==
    Log(w, ChainCall(w, "gl_core_filter_chain_free", chain, NullViewport, NoTexture))

\* delete chain: the chain's passes and preset go with it.
gl_core_filter_chain_free(w, chain) ==
    [Log(w, ChainCall(w, "gl_core_filter_chain_free", chain, NullViewport, NoTexture))
        EXCEPT !.heap[chain] = [chain |-> << >>, origin |-> @.origin,
                                frees |-> @.frees + 1]]

\* if (gl->filter_chain) gl_core_filter_chain_free(gl->filter_chain);
\* gl->filter_chain = NULL;
FreeFilterChain(w) ==
    LET f == IF w.gl[1].filter_chain # 0
             THEN gl_core_filter_chain_free(w, w.gl[1].filter_chain)
             ELSE w
    IN  [f EXCEPT !.gl[1].filter_chain = 0]

gl_core_init_default_filter_chain(w, stockOk) ==
    IF ~w.gl[1].ctx_driver THEN [w EXCEPT !.result = FALSE]
    ELSE Install(w, gl_core_filter_chain_create_default(ChainFilter(w), stockOk),
                 "gl_core_filter_chain_create_default", [kind |-> "stock", path |-> 0])

gl_core_init_filter_chain_preset(w, shader_path) ==
    Install(w, gl_core_filter_chain_create_from_preset(PresetFiles[shader_path],
                                                       ChainFilter(w)).ret,
            "gl_core_filter_chain_create_from_preset",
            [kind |-> "preset", path |-> shader_path])

\* shader_path is 0 for NULL; type is what video_shader_parse_type gives.
gl_core_init_filter_chain(w, type, shader_path, stockOk) ==
    IF type = "RARCH_SHADER_NONE" THEN gl_core_init_default_filter_chain(w, stockOk)
    ELSE IF type # "RARCH_SHADER_SLANG"
    THEN gl_core_init_default_filter_chain(w, stockOk)
    ELSE LET p == IF shader_path = 0 THEN [w EXCEPT !.result = FALSE]
                  ELSE gl_core_init_filter_chain_preset(w, shader_path)
             d == IF ~p.result THEN gl_core_init_default_filter_chain(p, stockOk)
                  ELSE p
         IN  [d EXCEPT !.result = TRUE]

\* The handle is freed with the resources it holds.
gl_core_destroy_resources(w) ==
    IF w.gl = << >> THEN w
    ELSE [FreeFilterChain(w) EXCEPT !.gl = << >>]

gl_core_set_shader(w, type, path, stockOk) ==
    IF w.gl = << >> THEN [w EXCEPT !.result = FALSE]
    ELSE LET p == IF type # "RARCH_SHADER_SLANG" /\ path # 0 THEN 0 ELSE path
             f == FreeFilterChain(w)
         IN  IF p = 0
             THEN [gl_core_init_default_filter_chain(f, stockOk) EXCEPT !.result = TRUE]
             ELSE LET c == gl_core_init_filter_chain_preset(f, p)
                  IN  IF ~c.result
                      THEN [gl_core_init_default_filter_chain(c, stockOk)
                               EXCEPT !.result = FALSE]
                      ELSE [c EXCEPT !.result = TRUE]

gl_core_get_current_shader(w) ==
    IF w.gl = << >> \/ w.gl[1].filter_chain = 0 THEN [w EXCEPT !.result = << >>]
    ELSE [Log(w, ChainCall(w, "gl_core_filter_chain_get_preset", w.gl[1].filter_chain,
                           NullViewport, NoTexture))
             EXCEPT !.result = w.heap[w.gl[1].filter_chain].chain[1].shader_preset]

\* What calloc and the context lookup answer to gl_core_init: whether the
\* handle was allocated, whether a context driver was found, and whether
\* the lookup handed back context data with it.
ContextAnswers ==
    {[handle |-> h, driver |-> d, data |-> x] :
        h \in BOOLEAN, d \in BOOLEAN, x \in BOOLEAN} \ 
    {[handle |-> h, driver |-> FALSE, data |-> TRUE] : h \in BOOLEAN}

\* gl_core_get_context stores the context data into the handle without
\* testing the handle: with context data and no handle the store goes
\* through a null pointer.
GetContextWritesNull(ctx) == ctx.data /\ ~ctx.handle

\* gl_core_init: `video` holds smooth and force_aspect; the other arguments
\* are what calloc, the context driver and the frontend answer.
gl_core_init(w, video, ctx, modeOk, identNull, type, shader_path, stockOk) ==
    LET n == [w EXCEPT !.gl = << >>]
        a == [w EXCEPT !.gl = <<NewHandle>>]
        b == [a EXCEPT !.gl[1].ctx_driver = TRUE, !.gl[1].smooth = video.smooth]
        c == [b EXCEPT !.gl[1].keep_aspect = video.force_aspect]
        d == gl_core_init_filter_chain(c, type, shader_path, stockOk)
        error(e) ==
            [gl_core_destroy_resources(
                Log(e, Call("video_context_driver_destroy", 0, FALSE, NullViewport,
                            NoTexture)))
                EXCEPT !.result = FALSE]
    IN  IF ~ctx.handle THEN error(n)
        ELSE IF ~ctx.driver THEN error(a)
        ELSE IF ~modeOk THEN error(b)
        ELSE IF identNull THEN error(b)
        ELSE IF ~d.result THEN error(d)
        ELSE [d EXCEPT !.gl[1].vao = 1, !.result = TRUE]

\* gl_core_init when gl_core_get_context stores through the null handle and
\* the process ends there: nothing is returned and nothing is destroyed.
InitNullHandleCrash(w) == [w EXCEPT !.gl = << >>, !.result = FALSE]

gl_core_free(w) ==
    IF w.gl = << >> THEN w
    ELSE gl_core_destroy_resources(
            Log(w, Call("video_context_driver_free", 0, FALSE, NullViewport, NoTexture)))

\* roundf(n / d) for n >= 0 and d > 0: halves round away from zero.
RoundDiv(n, d) == (2 * n + d) \div (2 * d)

Abs(n) == IF n < 0 THEN 0 - n ELSE n

\* Mutant of SyncFilterChainVp: the chain's viewport is left as it was.
SyncFilterChainVp_Stale(g) == g

\* gl->filter_chain_vp.x = gl->vp.x; ... (the four assignments)
SyncFilterChainVp(g) ==
    [g EXCEPT !.filter_chain_vp = [x |-> g.vp.x, y |-> g.vp.y,
                                   width |-> g.vp.width, height |-> g.vp.height]]

\* Mutant of gl_core_set_viewport: the backbuffer viewport is recorded on a
\* forced full viewport too.
gl_core_set_viewport_AlwaysOut(g, video_info, viewport_width, viewport_height, force_full, env) ==
    LET p == env.aspect[1]
        q == env.aspect[2]
        wq == viewport_width * q
        ph == p * viewport_height
        fitted ==
            IF video_info.custom
            THEN [x |-> video_info.custom_vp_x,
                  y |-> video_info.height - video_info.custom_vp_y
                            - video_info.custom_vp_height,
                  width |-> video_info.custom_vp_width,
                  height |-> video_info.custom_vp_height]
            ELSE IF 10000 * Abs(wq - ph) < viewport_height * q
            THEN [x |-> 0, y |-> 0, width |-> viewport_width, height |-> viewport_height]
            ELSE IF wq > ph
            THEN [x |-> RoundDiv(wq - ph, 2 * q), y |-> 0,
                  width |-> RoundDiv(ph, q), height |-> viewport_height]
            ELSE [x |-> 0, y |-> RoundDiv(ph - wq, 2 * p),
                  width |-> viewport_width, height |-> RoundDiv(wq, p)]
        vp == IF video_info.scale_integer /\ ~force_full THEN env.scaled
              ELSE IF g.keep_aspect /\ ~force_full THEN fitted
              ELSE [x |-> 0, y |-> 0, width |-> viewport_width,
                    height |-> viewport_height]
        v == [g EXCEPT !.vp = vp]
        o == [v EXCEPT !.vp_out_width = vp.width, !.vp_out_height = vp.height]
    IN  SyncFilterChainVp(o)

\* gl_core_set_viewport on the gl_core_t g.  video_info holds width, height,
\* scale_integer, custom (aspect_ratio_idx == ASPECT_RATIO_CUSTOM) and the
\* custom viewport; env holds what the frontend answers: aspect, the
\* desired aspect ratio as a fraction <<p, q>>, and scaled, the viewport
\* video_viewport_get_scaled_integer writes.  The float arithmetic is done
\* on fractions: device_aspect is viewport_width / viewport_height, and
\* delta is desired / (2 device) or device / (2 desired).
gl_core_set_viewport(g, video_info, viewport_width, viewport_height, force_full, env) ==
    LET p == env.aspect[1]
        q == env.aspect[2]
        wq == viewport_width * q
        ph == p * viewport_height
        fitted ==
            IF video_info.custom
            THEN [x |-> video_info.custom_vp_x,
                  y |-> video_info.height - video_info.custom_vp_y
                            - video_info.custom_vp_height,
                  width |-> video_info.custom_vp_width,
                  height |-> video_info.custom_vp_height]
            ELSE IF 10000 * Abs(wq - ph) < viewport_height * q
            THEN [x |-> 0, y |-> 0, width |-> viewport_width, height |-> viewport_height]
            ELSE IF wq > ph
            THEN [x |-> RoundDiv(wq - ph, 2 * q), y |-> 0,
                  width |-> RoundDiv(ph, q), height |-> viewport_height]
            ELSE [x |-> 0, y |-> RoundDiv(ph - wq, 2 * p),
                  width |-> viewport_width, height |-> RoundDiv(wq, p)]
        vp == IF video_info.scale_integer /\ ~force_full THEN env.scaled
              ELSE IF g.keep_aspect /\ ~force_full THEN fitted
              ELSE [x |-> 0, y |-> 0, width |-> viewport_width,
                    height |-> viewport_height]
        v == [g EXCEPT !.vp = vp]
        o == IF ~force_full
             THEN [v EXCEPT !.vp_out_width = vp.width, !.vp_out_height = vp.height]
             ELSE v
    IN  SyncFilterChainVp(o)

gl_core_set_viewport_wrapper(w, video_info, viewport_width, viewport_height, force_full, env) ==
    [w EXCEPT !.gl[1] = gl_core_set_viewport(@, video_info, viewport_width,
                                             viewport_height, force_full, env)]

gl_core_set_aspect_ratio(w) ==
    IF w.gl = << >> THEN w
    ELSE [w EXCEPT !.gl[1].keep_aspect = TRUE, !.gl[1].should_resize = TRUE]

\* What check_window can report to gl_core_alive, and the rotations (in
\* quarter turns: none and three) and the swap interval the frontend hands
\* over.
WindowReports == {[quit |-> q, resize |-> r] : q \in BOOLEAN, r \in BOOLEAN}
Rotations == {0, 3}
VideoSwapInterval == 1

\* Mutant of gl_core_alive: the answer follows the report of this call.
gl_core_alive_ReportOnly(w, report) ==
    LET c == Log(w, Call("check_window", 0, FALSE, NullViewport, NoTexture))
        q == IF report.quit THEN [c EXCEPT !.gl[1].quitting = TRUE]
             ELSE IF report.resize THEN [c EXCEPT !.gl[1].should_resize = TRUE]
             ELSE c
    IN  [q EXCEPT !.result = ~report.quit]

\* gl_core_alive: a quit report is kept in the handle for good; a resize
\* report only counts when no quit was reported with it.
gl_core_alive(w, report) ==
    LET c == Log(w, Call("check_window", 0, FALSE, NullViewport, NoTexture))
        q == IF report.quit THEN [c EXCEPT !.gl[1].quitting = TRUE]
             ELSE IF report.resize THEN [c EXCEPT !.gl[1].should_resize = TRUE]
             ELSE c
    IN  [q EXCEPT !.result = ~q.gl[1].quitting]

\* gl_core_set_nonblock_state: the swap interval is 0 when blocking is off.
gl_core_set_nonblock_state(w, state) ==
    IF w.gl = << >> THEN w
    ELSE [Log(w, Call("video_context_driver_swap_interval", 0, FALSE, NullViewport,
                      NoTexture))
             EXCEPT !.result = IF state THEN 0 ELSE VideoSwapInterval]

gl_core_suppress_screensaver(w, enable, answer) ==
    [Log(w, Call("video_context_driver_suppress_screensaver", 0, FALSE, NullViewport,
                 NoTexture))
        EXCEPT !.result = answer]

\* gl_core_set_rotation: the angle in degrees; the projection matrices are
\* computed from it and from the constant default_ortho and are not kept.
gl_core_set_rotation(w, rotation) ==
    IF w.gl = << >> THEN w
    ELSE [w EXCEPT !.gl[1].rotation = 90 * rotation]

\* gl_core_viewport_info: top_y and top_dist are unsigned and the result's
\* y is an int, so a difference below zero comes back as that negative int.
gl_core_viewport_info(w, width, height) ==
    LET vp == w.gl[1].vp
    IN  [w EXCEPT !.result = [x |-> vp.x, y |-> height - (vp.y + vp.height),
                              width |-> vp.width, height |-> vp.height,
                              full_width |-> width, full_height |-> height]]

\* Mutant of gl_core_apply_state_changes: the resize also drops the chain.
gl_core_apply_state_changes_DropsChain(w) ==
    IF w.gl = << >> THEN w
    ELSE [w EXCEPT !.gl[1].should_resize = TRUE, !.gl[1].filter_chain = 0]

gl_core_apply_state_changes(w) ==
    IF w.gl = << >> THEN w
    ELSE [w EXCEPT !.gl[1].should_resize = TRUE]


\* glGenTextures: a name no texture of the ring has.
GenTexture(textures) ==
    CHOOSE n \in 1..(GL_CORE_NUM_TEXTURES + 1) :
        /\ \A i \in DOMAIN textures : textures[i].tex # n
        /\ \A m \in 1..(n - 1) : \E i \in DOMAIN textures : textures[i].tex = m

\* Mutant of gl_core_update_cpu_texture: the texture is deleted and made
\* anew on every upload.
gl_core_update_cpu_texture_AlwaysNew(w, slot, width, height) ==
    LET streamed == w.gl[1].textures[slot]
        deleted == [w.gl[1].textures EXCEPT ![slot].tex = 0]
        made == [tex |-> GenTexture(deleted), width |-> width, height |-> height]
        d == IF streamed.tex # 0
             THEN Log(w, Call("glDeleteTextures", 0, FALSE, NullViewport, streamed))
             ELSE w
        n == Log(d, Call("glGenTextures", 0, FALSE, NullViewport, made))
        u == [n EXCEPT !.gl[1].textures[slot] = made]
    IN  Log(u, Call("glTexSubImage2D", 0, FALSE, NullViewport, made))

\* gl_core_update_cpu_texture on slot `slot` of the ring.
gl_core_update_cpu_texture(w, slot, width, height) ==
    LET streamed == w.gl[1].textures[slot]
        deleted == [w.gl[1].textures EXCEPT ![slot].tex = 0]
        tex == GenTexture(deleted)
        made == [tex |-> tex, width |-> width, height |-> height]
        d == IF streamed.tex # 0
             THEN Log(w, Call("glDeleteTextures", 0, FALSE, NullViewport, streamed))
             ELSE w
        n == Log(d, Call("glGenTextures", 0, FALSE, NullViewport, made))
        u == IF width # streamed.width \/ height # streamed.height
             THEN [n EXCEPT !.gl[1].textures[slot] = made]
             ELSE w
    IN  Log(u, Call("glTexSubImage2D", 0, FALSE, NullViewport, u.gl[1].textures[slot]))

\* Mutant of NextTextureIndex: the ring does not advance.
NextTextureIndex_Stuck(textures_index) == textures_index

\* (gl->textures_index + 1) & (GL_CORE_NUM_TEXTURES - 1)
NextTextureIndex(textures_index) ==
    BitAnd(textures_index + 1, GL_CORE_NUM_TEXTURES - 1)

\* gl_core_frame up to the first operation on the chain: the upload into the
\* ring slot and the viewport.
FrameBegin(w, frame_width, frame_height, video_info, env) ==
    LET u == gl_core_update_cpu_texture(w, w.gl[1].textures_index, frame_width,
                                        frame_height)
    IN  [u EXCEPT !.gl[1] = gl_core_set_viewport(@, video_info, video_info.width,
                                                 video_info.height, FALSE, env)]

\* The frame operations with the chain's input set to the texture of the
\* ring slot before the one the frame uploaded into.
FrameChainOps_StaleTexture(w) ==
    LET g == w.gl[1]
        texture == g.textures[(g.textures_index + GL_CORE_NUM_TEXTURES - 1)
                                  % GL_CORE_NUM_TEXTURES]
        a == Log(w, ChainCall(w, "gl_core_filter_chain_set_input_texture",
                              g.filter_chain, NullViewport, texture))
        b == Log(a, ChainCall(w, "gl_core_filter_chain_build_offscreen_passes",
                              g.filter_chain, g.filter_chain_vp, NoTexture))
        c == Log(b, ChainCall(w, "gl_core_filter_chain_build_viewport_pass",
                              g.filter_chain, g.filter_chain_vp, NoTexture))
        d == Log(c, ChainCall(w, "gl_core_filter_chain_end_frame",
                              g.filter_chain, NullViewport, NoTexture))
    IN  Log(d, Call("cb_swap_buffers", 0, FALSE, NullViewport, NoTexture))

\* The frame operations with the viewport pass built before the offscreen
\* passes.
FrameChainOps_ViewportFirst(w) ==
    LET g == w.gl[1]
        texture == g.textures[g.textures_index]
        a == Log(w, ChainCall(w, "gl_core_filter_chain_set_input_texture",
                              g.filter_chain, NullViewport, texture))
        b == Log(a, ChainCall(w, "gl_core_filter_chain_build_viewport_pass",
                              g.filter_chain, g.filter_chain_vp, NoTexture))
        c == Log(b, ChainCall(w, "gl_core_filter_chain_build_offscreen_passes",
                              g.filter_chain, g.filter_chain_vp, NoTexture))
        d == Log(c, ChainCall(w, "gl_core_filter_chain_end_frame",
                              g.filter_chain, NullViewport, NoTexture))
    IN  Log(d, Call("cb_swap_buffers", 0, FALSE, NullViewport, NoTexture))

\* The frame operations without the end of the frame.
FrameChainOps_NoEndFrame(w) ==
    LET g == w.gl[1]
        texture == g.textures[g.textures_index]
        a == Log(w, ChainCall(w, "gl_core_filter_chain_set_input_texture",
                              g.filter_chain, NullViewport, texture))
        b == Log(a, ChainCall(w, "gl_core_filter_chain_build_offscreen_passes",
                              g.filter_chain, g.filter_chain_vp, NoTexture))
        c == Log(b, ChainCall(w, "gl_core_filter_chain_build_viewport_pass",
                              g.filter_chain, g.filter_chain_vp, NoTexture))
    IN  Log(c, Call("cb_swap_buffers", 0, FALSE, NullViewport, NoTexture))

\* The operations gl_core_frame makes on the chain, in order, then the swap.
FrameChainOps(w) ==
    LET g == w.gl[1]
        texture == g.textures[g.textures_index]
        a == Log(w, ChainCall(w, "gl_core_filter_chain_set_input_texture",
                              g.filter_chain, NullViewport, texture))
        b == Log(a, ChainCall(w, "gl_core_filter_chain_build_offscreen_passes",
                              g.filter_chain, g.filter_chain_vp, NoTexture))
        c == Log(b, ChainCall(w, "gl_core_filter_chain_build_viewport_pass",
                              g.filter_chain, g.filter_chain_vp, NoTexture))
        d == Log(c, ChainCall(w, "gl_core_filter_chain_end_frame",
                              g.filter_chain, NullViewport, NoTexture))
    IN  Log(d, Call("cb_swap_buffers", 0, FALSE, NullViewport, NoTexture))

\* gl_core_frame when the chain operations return.
gl_core_frame(w, frame_width, frame_height, video_info, env) ==
    IF w.gl = << >> THEN [w EXCEPT !.result = FALSE]
    ELSE [FrameChainOps(FrameBegin(w, frame_width, frame_height, video_info, env))
             EXCEPT !.gl[1].textures_index = NextTextureIndex(@),
                    !.result = TRUE]

\* gl_core_frame when gl->filter_chain is NULL and the first operation on
\* the chain, a member call through the null pointer, ends the process.
FrameNullChainCrash(w, frame_width, frame_height, video_info, env) ==
    LET b == FrameBegin(w, frame_width, frame_height, video_info, env)
    IN  Log(b, ChainCall(b, "gl_core_filter_chain_set_input_texture", 0, NullViewport,
                         b.gl[1].textures[b.gl[1].textures_index]))

(***************************************************************************)
(* State.                                                                  *)
(*   ld      the loader's state (see above);                               *)
(*   fed     what the loader's collaborators have answered so far: whether *)
(*           the config file opened and parsed, each lookup texture        *)
(*           loaded, the compiler's output per pass, whether the current   *)
(*           parameters resolved and the chain initialised;                *)
(*   drv     the driver's world (see above);                               *)
(*   cb      the driver callback that ran last, with its arguments;        *)
(*   hist    since the handle was made: the ring slots the latest frames   *)
(*           uploaded into and the window sizes of the latest two frames,  *)
(*           latest last, and whether check_window has reported quit;      *)
(*   crashed the process has ended in a fault;                             *)
(*   fc      per chain created, what the chain keeps from frame to frame   *)
(*           (its frame count); followed by ChainSpec only, the other      *)
(*           specifications leave it as it starts;                         *)
(*   tex     the image a texture was last made from and the mip levels it  *)
(*           was given; followed by MipSpec only.                          *)
(***************************************************************************)
VARIABLES ld, fed, drv, cb, hist, crashed, fc, tex

driverVars == <<drv, cb, hist, crashed, fc>>
vars == <<ld, fed, drv, cb, hist, crashed, fc, tex>>

Filters == {"GL_CORE_FILTER_CHAIN_LINEAR", "GL_CORE_FILTER_CHAIN_NEAREST"}

NothingFed ==
    [confOk |-> TRUE, parseOk |-> TRUE, lutsOk |-> << >>, outputs |-> << >>,
     resolveOk |-> TRUE, initOk |-> TRUE]

\* The window sizes, frame sizes, video_info values and frontend answers
\* drawn.  The scaled-integer and the custom viewport are drawn for the
\* first window only.
Windows == {<<800, 600>>, <<1920, 1080>>}
FrameSizes == {<<256, 240>>}
BaseVideoInfo ==
    [width |-> 800, height |-> 600, scale_integer |-> FALSE, custom |-> FALSE,
     custom_vp_x |-> 10, custom_vp_y |-> 20, custom_vp_width |-> 640,
     custom_vp_height |-> 480]
PlainVideoInfos ==
    {[BaseVideoInfo EXCEPT !.width = s[1], !.height = s[2]] : s \in Windows}
VideoInfos ==
    PlainVideoInfos \cup {[BaseVideoInfo EXCEPT !.scale_integer = TRUE],
                          [BaseVideoInfo EXCEPT !.custom = TRUE]}
BaseEnv == [aspect |-> <<4, 3>>, scaled |-> [x |-> 80, y |-> 60, width |-> 640,
                                            height |-> 480]]
Envs == {[BaseEnv EXCEPT !.aspect = a] : a \in {<<4, 3>>, <<16, 9>>}}

\* The video_info_t values gl_core_init is handed.
Videos ==
    {[smooth |-> TRUE, force_aspect |-> FALSE],
     [smooth |-> FALSE, force_aspect |-> TRUE]}

NoHistory == [uploads |-> << >>, windows |-> << >>, quit |-> FALSE]

\* The last n elements of s.
Latest(s, n) == SubSeq(s, Max(1, Len(s) - n + 1), Len(s))

\* What the collaborators answered to gl_core_init, kept with the callback;
\* for the other callbacks, the answers of an init without failure.
InitAnswers(ctx, modeOk, identNull, stockOk) ==
    [ctx |-> ctx, modeOk |-> modeOk, identNull |-> identNull, stockOk |-> stockOk]

NoAnswers ==
    InitAnswers([handle |-> TRUE, driver |-> TRUE, data |-> TRUE], TRUE, FALSE, TRUE)

Callback(fn) ==
    [fn |-> fn, type |-> "RARCH_SHADER_NONE", path |-> 0,
     video_info |-> BaseVideoInfo, env |-> BaseEnv, force_full |-> FALSE,
     answers |-> NoAnswers, frame |-> <<0, 0>>,
     report |-> [quit |-> FALSE, resize |-> FALSE], window |-> <<0, 0>>]

\* No texture has been made from an image.
NoImage == [made |-> "none", width |-> 0, height |-> 0, mipmap |-> FALSE, levels |-> 0]

DriverInit ==
    /\ drv = NewWorld
    /\ cb = Callback("none")
    /\ hist = NoHistory
    /\ crashed = FALSE
    /\ fc = << >>
    /\ tex = NoImage

\* The parameter declarations the compiler has reported so far, in order.
RECURSIVE DeclsOf(_)
DeclsOf(outputs) ==
    IF outputs = << >> THEN << >>
    ELSE DeclsOf(SubSeq(outputs, 1, Len(outputs) - 1))
         \o outputs[Len(outputs)].meta.parameters

LoaderInit ==
    /\ ld \in {LoaderStart(f) : f \in Filters}
    /\ fed = NothingFed
    /\ DriverInit

\* The config file does not open, or does not parse.
LoaderRejectFile ==
    /\ ld.pc = "start"
    /\ UNCHANGED <<driverVars, tex>>
    /\ \E confOk \in BOOLEAN :
          /\ ld' = BeginLoad(confOk, FALSE, [passes |-> << >>, luts |-> 0], << >>,
                             ld.filter)
          /\ fed' = [fed EXCEPT !.confOk = confOk, !.parseOk = FALSE]

\* The config file parses: the preset is read and the lookup textures load.
\* Lookup textures are drawn for base presets only.
LoaderBegin ==
    /\ ld.pc = "start"
    /\ UNCHANGED <<driverVars, tex>>
    /\ \E passes \in ParsedPassLists, luts \in 0..MaxLuts :
          /\ luts # 0 => IsBasePreset(passes)
          /\ \E lutsOk \in [1..luts -> BOOLEAN] :
                /\ ld' = BeginLoad(TRUE, TRUE, [passes |-> passes, luts |-> luts],
                                   lutsOk, ld.filter)
                /\ fed' = [fed EXCEPT !.lutsOk = lutsOk]

\* The config file parses with no passes: the read for last_pass_is_fbo
\* goes outside the array.
LoaderBeginNoPasses ==
    /\ ld.pc = "start"
    /\ UNCHANGED <<driverVars, tex>>
    /\ \/ \E luts \in 0..MaxLuts, found \in BOOLEAN :
             \E lutsOk \in [1..luts -> BOOLEAN] :
                /\ ld' = BeginLoadNoPasses(luts, lutsOk, ld.filter, found)
                /\ fed' = [fed EXCEPT !.lutsOk = lutsOk]
       \/ /\ ld' = BeginLoadNoPassesFault(ld.filter)
          /\ UNCHANGED fed

\* How many parameter declarations the next compiler output may hold: up to
\* MaxDecls over the whole load for a preset without lookup textures loaded
\* with the linear filter, and one per load otherwise.
DeclRoom ==
    IF ld.shader.luts = 0 /\ ld.filter = "GL_CORE_FILTER_CHAIN_LINEAR"
    THEN MaxDecls - Len(DeclsOf(fed.outputs))
    ELSE 1 - Min(1, Len(DeclsOf(fed.outputs)))

\* One iteration of the loop over the passes.
LoaderPass ==
    /\ ld.pc = "passes"
    /\ UNCHANGED <<driverVars, tex>>
    /\ \E output \in OutputsFor(ld.shader.passes, ld.i + 1, DeclRoom) :
          /\ ld' = LoadPass(ld, output)
          /\ fed' = [fed EXCEPT !.outputs = Append(@, output)]

\* After the loop.
LoaderEnd ==
    /\ ld.pc = "finish"
    /\ UNCHANGED <<driverVars, tex>>
    /\ \E resolveOk \in BOOLEAN, initOk \in BOOLEAN :
          /\ ld' = EndLoad(ld, resolveOk, initOk)
          /\ fed' = [fed EXCEPT !.resolveOk = resolveOk,
                                !.initOk = resolveOk => initOk]

LoaderNext ==
    \/ LoaderRejectFile
    \/ LoaderBegin
    \/ LoaderPass
    \/ LoaderEnd

LoaderSpec == LoaderInit /\ [][LoaderNext]_vars

\* The loader on every preset the parser can hand over, those without
\* passes included.
AnyPresetNext ==
    \/ LoaderRejectFile
    \/ LoaderBegin
    \/ LoaderBeginNoPasses
    \/ LoaderPass
    \/ LoaderEnd

AnyPresetSpec == LoaderInit /\ [][AnyPresetNext]_vars

\* The (type, path) pairs gl_core_init finds: no preset, a preset of
\* another shader language, a slang preset.
InitRequests ==
    {<<"RARCH_SHADER_NONE", 0>>, <<"RARCH_SHADER_GLSL", 1>>}
    \cup {<<"RARCH_SHADER_SLANG", p>> : p \in Paths}

\* The (type, path) pairs gl_core_set_shader is called with.
ShaderRequests == InitRequests \cup {<<"RARCH_SHADER_SLANG", 0>>}

\* The callback starts with an empty record of calls.
Entering == [drv EXCEPT !.calls = << >>]

GlCoreInitWith(ctxs) ==
    /\ ~crashed
    /\ drv.gl = << >>
    /\ Len(drv.heap) < MaxChains
    /\ \E video \in Videos, ctx \in ctxs, modeOk \in BOOLEAN,
          identNull \in BOOLEAN, req \in InitRequests, stockOk \in BOOLEAN :
          /\ \/ /\ drv' = gl_core_init(Entering, video, ctx, modeOk, identNull,
                                       req[1], req[2], stockOk)
                /\ crashed' = FALSE
             \/ /\ GetContextWritesNull(ctx)
                /\ drv' = InitNullHandleCrash(Entering)
                /\ crashed' = TRUE
          /\ cb' = [Callback("gl_core_init")
                       EXCEPT !.type = req[1], !.path = req[2],
                              !.answers = InitAnswers(ctx, modeOk, identNull, stockOk)]
    /\ hist' = NoHistory
    /\ UNCHANGED <<ld, fed, tex>>

FrameHistory(video_info) ==
    [uploads |-> Latest(Append(hist.uploads, drv.gl[1].textures_index),
                        GL_CORE_NUM_TEXTURES + 1),
     windows |-> Latest(Append(hist.windows, <<video_info.width, video_info.height>>), 2),
     quit |-> hist.quit]

\* gl_core_frame on a handle that has a chain, with the video_info and the
\* frontend answers drawn from `infos` and `envs`.
GlCoreFrameWith(infos, envs) ==
    /\ ~crashed
    /\ drv.gl # << >>
    /\ drv.gl[1].filter_chain # 0
    /\ \E size \in FrameSizes, video_info \in infos, env \in envs :
          /\ drv' = gl_core_frame(Entering, size[1], size[2], video_info, env)
          /\ cb' = [Callback("gl_core_frame") EXCEPT !.video_info = video_info,
                                                    !.env = env, !.frame = size]
          /\ hist' = FrameHistory(video_info)
    /\ UNCHANGED <<crashed, ld, fed, tex>>

\* gl_core_frame on a handle whose filter_chain is NULL: the chain
\* operations dereference the null pointer.  The process faults at the
\* first of them, or the operations run on whatever is mapped there.
GlCoreFrameNullChainWith(infos, envs) ==
    /\ ~crashed
    /\ drv.gl # << >>
    /\ drv.gl[1].filter_chain = 0
    /\ \E size \in FrameSizes, video_info \in infos, env \in envs :
          /\ \/ /\ drv' = FrameNullChainCrash(Entering, size[1], size[2], video_info, env)
                /\ crashed' = TRUE
             \/ /\ drv' = gl_core_frame(Entering, size[1], size[2], video_info, env)
                /\ crashed' = FALSE
          /\ cb' = [Callback("gl_core_frame") EXCEPT !.video_info = video_info,
                                                    !.env = env, !.frame = size]
          /\ hist' = FrameHistory(video_info)
    /\ UNCHANGED <<ld, fed, tex>>

GlCoreSetShaderWith(requests) ==
    /\ ~crashed
    /\ drv.gl # << >>
    /\ Len(drv.heap) < MaxChains
    /\ \E req \in requests, stockOk \in BOOLEAN :
          /\ drv' = gl_core_set_shader(Entering, req[1], req[2], stockOk)
          /\ cb' = [Callback("gl_core_set_shader") EXCEPT !.type = req[1],
                                                         !.path = req[2]]
    /\ UNCHANGED <<hist, crashed, ld, fed, tex>>

GlCoreSetViewportWrapperWith(infos, envs) ==
    /\ ~crashed
    /\ drv.gl # << >>
    /\ \E video_info \in infos, env \in envs, force_full \in BOOLEAN :
          /\ drv' = gl_core_set_viewport_wrapper(Entering, video_info, video_info.width,
                                                 video_info.height, force_full, env)
          /\ cb' = [Callback("gl_core_set_viewport_wrapper")
                       EXCEPT !.video_info = video_info, !.env = env,
                              !.force_full = force_full]
    /\ UNCHANGED <<hist, crashed, ld, fed, tex>>

GlCoreSetAspectRatio ==
    /\ ~crashed
    /\ drv.gl # << >>
    /\ drv' = gl_core_set_aspect_ratio(Entering)
    /\ cb' = Callback("gl_core_set_aspect_ratio")
    /\ UNCHANGED <<hist, crashed, ld, fed, fc, tex>>

GlCoreGetCurrentShader ==
    /\ ~crashed
    /\ drv.gl # << >>
    /\ drv' = gl_core_get_current_shader(Entering)
    /\ cb' = Callback("gl_core_get_current_shader")
    /\ UNCHANGED <<hist, crashed, ld, fed, fc, tex>>

GlCoreFree ==
    /\ ~crashed
    /\ drv.gl # << >>
    /\ drv' = gl_core_free(Entering)
    /\ cb' = Callback("gl_core_free")
    /\ UNCHANGED <<hist, crashed, ld, fed, fc, tex>>

Init ==
    /\ ld = LoaderStart("GL_CORE_FILTER_CHAIN_LINEAR")
    /\ fed = NothingFed
    /\ DriverInit

\* The driver's callbacks, on plain windows.
GlCoreInit == GlCoreInitWith(ContextAnswers) /\ UNCHANGED fc
GlCoreFrame == GlCoreFrameWith(PlainVideoInfos, {BaseEnv}) /\ UNCHANGED fc
GlCoreFrameNullChain ==
    GlCoreFrameNullChainWith(PlainVideoInfos, {BaseEnv}) /\ UNCHANGED fc
GlCoreSetShader == GlCoreSetShaderWith(ShaderRequests) /\ UNCHANGED fc
GlCoreSetViewportWrapper ==
    GlCoreSetViewportWrapperWith(PlainVideoInfos, {BaseEnv}) /\ UNCHANGED fc

Next ==
    \/ GlCoreInit
    \/ GlCoreFrame
    \/ GlCoreFrameNullChain
    \/ GlCoreSetShader
    \/ GlCoreSetViewportWrapper
    \/ GlCoreSetAspectRatio
    \/ GlCoreGetCurrentShader
    \/ GlCoreFree

Spec == Init /\ [][Next]_vars

\* The callbacks that set the viewport, on every video_info and frontend
\* answer drawn, on the handle gl_core_init made.
ViewFrame == GlCoreFrameWith(VideoInfos, Envs) /\ UNCHANGED fc
ViewFrameNullChain == GlCoreFrameNullChainWith(VideoInfos, Envs) /\ UNCHANGED fc
ViewSetViewportWrapper ==
    GlCoreSetViewportWrapperWith(VideoInfos, Envs) /\ UNCHANGED fc

ViewNext ==
    \/ GlCoreInit
    \/ ViewFrame
    \/ ViewFrameNullChain
    \/ ViewSetViewportWrapper
    \/ GlCoreSetAspectRatio

ViewSpec == Init /\ [][ViewNext]_vars

(***************************************************************************)
(* The chain from frame to frame.  The bodies of the chain's methods are   *)
(* not among the sources; what they keep is taken from the declarations    *)
(* and what they do from the specification.                                *)
(***************************************************************************)
MaxFrames == 3
MaxHistory == 2

\* What a chain keeps when it is made: Pass::frame_count starts at 0, no
\* input texture is set, and original_history, of the capacity the shaders
\* ask for, holds no frame.
NewChainState(capacity) ==
    [frame_count |-> 0, input_texture |-> NoTexture, capacity |-> capacity,
     original_history |-> << >>, pass_outputs |-> << >>, executed |-> << >>]

\* gl_core_filter_chain::set_input_texture: the texture of the new frame;
\* nothing is rendered.  `executed` lists the passes run in the frame.
set_input_texture(state, texture) ==
    [state EXCEPT !.input_texture = texture, !.executed = << >>]

\* The frame in which pass number `pass` last rendered into its
\* framebuffer, -1 when it never did.
OutputFrame(state, pass) ==
    IF pass + 1 <= Len(state.pass_outputs) THEN state.pass_outputs[pass + 1] ELSE -1

\* One pass run by `by`: its source is the input texture for pass 0 and
\* the output of the pass before it otherwise; a pass that is not the
\* terminal one renders into its framebuffer.
RunPass(state, pass, by, terminal) ==
    LET source ==
            IF pass = 0
            THEN [from |-> "input", pass |-> 0, texture |-> state.input_texture,
                  frame |-> state.frame_count]
            ELSE [from |-> "pass", pass |-> pass - 1, texture |-> NoTexture,
                  frame |-> OutputFrame(state, pass - 1)]
        ran == [state EXCEPT !.executed =
                   Append(@, [pass |-> pass, by |-> by, source |-> source])]
        outputs == [k \in 1..Max(Len(state.pass_outputs), pass + 1) |->
                       IF k = pass + 1 THEN state.frame_count
                       ELSE OutputFrame(state, k - 1)]
    IN  IF terminal THEN ran ELSE [ran EXCEPT !.pass_outputs = outputs]

\* gl_core_filter_chain::build_offscreen_passes on a chain of `passes`
\* passes, from pass number `pass` on: the passes before the last, in
\* order.
RECURSIVE build_offscreen_passes(_, _, _)
build_offscreen_passes(state, passes, pass) ==
    IF pass + 1 >= passes THEN state
    ELSE build_offscreen_passes(
             RunPass(state, pass, "gl_core_filter_chain_build_offscreen_passes", FALSE),
             passes, pass + 1)

\* gl_core_filter_chain::build_viewport_pass: the last pass.
build_viewport_pass(state, passes) ==
    IF passes = 0 THEN state
    ELSE RunPass(state, passes - 1, "gl_core_filter_chain_build_viewport_pass", TRUE)

\* gl_core_filter_chain::end_frame: the current input texture is put in
\* front of the history ring, whose oldest frame drops out when the ring is
\* full, and the frame count goes up by one.
end_frame(state) ==
    LET frame == [texture |-> state.input_texture, frame |-> state.frame_count]
        ring == <<frame>> \o state.original_history
    IN  [state EXCEPT !.original_history = SubSeq(ring, 1, Min(Len(ring), state.capacity)),
                      !.frame_count = @ + 1]

\* The calls of a callback, applied in order to what the chains of the
\* heap keep.
RECURSIVE ApplyChainCalls(_, _, _)
ApplyChainCalls(states, heap, calls) ==
    IF calls = << >> THEN states
    ELSE LET call == Head(calls)
             id == call.chain
             passes == Len(heap[id].chain[1].passes)
             next ==
                 IF id = 0 \/ heap[id].chain = << >> THEN states
                 ELSE IF call.op = "gl_core_filter_chain_set_input_texture"
                 THEN [states EXCEPT ![id] = set_input_texture(@, call.texture)]
                 ELSE IF call.op = "gl_core_filter_chain_build_offscreen_passes"
                 THEN [states EXCEPT ![id] = build_offscreen_passes(@, passes, 0)]
                 ELSE IF call.op = "gl_core_filter_chain_build_viewport_pass"
                 THEN [states EXCEPT ![id] = build_viewport_pass(@, passes)]
                 ELSE IF call.op = "gl_core_filter_chain_end_frame"
                 THEN [states EXCEPT ![id] = end_frame(@)]
                 ELSE states
         IN  ApplyChainCalls(next, heap, Tail(calls))

\* What the chains keep after a callback that left the world w: the chains
\* it made start new, with a history of the given capacity, its calls are
\* applied, and the chains it freed keep nothing.
Track(w, capacity) ==
    LET before == [id \in 1..Len(w.heap) |->
                      IF id <= Len(fc) THEN fc[id] ELSE NewChainState(capacity)]
        after == ApplyChainCalls(before, w.heap, w.calls)
    IN  [id \in 1..Len(w.heap) |->
            IF w.heap[id].frees > 0 THEN NewChainState(0) ELSE after[id]]

\* The capacities of the history ring the shaders of a chain ask for.
Capacities == 0..MaxHistory

\* The handle's chain can take another frame within the bound.
FramesLeft ==
    /\ drv.gl # << >>
    /\ drv.gl[1].filter_chain # 0 => fc[drv.gl[1].filter_chain].frame_count < MaxFrames

ChainGlCoreInit ==
    GlCoreInitWith(ContextAnswers) /\ \E capacity \in Capacities : fc' = Track(drv', capacity)
ChainFrame ==
    FramesLeft /\ GlCoreFrameWith({BaseVideoInfo}, {BaseEnv}) /\ fc' = Track(drv', 0)
ChainFrameNullChain ==
    GlCoreFrameNullChainWith({BaseVideoInfo}, {BaseEnv}) /\ fc' = Track(drv', 0)
ChainSetShader ==
    GlCoreSetShaderWith(ShaderRequests) /\ \E capacity \in Capacities : fc' = Track(drv', capacity)

ChainNext ==
    \/ ChainGlCoreInit
    \/ ChainFrame
    \/ ChainFrameNullChain
    \/ ChainSetShader

ChainSpec == Init /\ [][ChainNext]_vars

(***************************************************************************)
(* Mip levels.                                                             *)
(***************************************************************************)
MaxImageSize == 9

\* num_miplevels of the filter chain counting levels from 1 whatever the
\* size.
RECURSIVE num_miplevels_FromOne(_, _)
num_miplevels_FromOne(width, height) ==
    LET size == Max(width, height)
    IN  IF size = 0 THEN 1
        ELSE 1 + num_miplevels_FromOne(size \div 2, size \div 2)

\* gl_core::num_miplevels: the number of times the larger side can be
\* shifted right before it is 0.
RECURSIVE num_miplevels(_, _)
num_miplevels(width, height) ==
    LET size == Max(width, height)
    IN  IF size = 0 THEN 0
        ELSE 1 + num_miplevels(size \div 2, size \div 2)

\* num_miplevels of the driver's texture loader: one level, and one more
\* for each shift right of the larger side while it is above 1.
RECURSIVE num_miplevels_driver(_, _)
num_miplevels_driver(width, height) ==
    LET size == IF width < height THEN height ELSE width
    IN  IF size > 1 THEN 1 + num_miplevels_driver(size \div 2, size \div 2)
        ELSE 1

MipmapFilterTypes == {"TEXTURE_FILTER_MIPMAP_LINEAR", "TEXTURE_FILTER_MIPMAP_NEAREST"}
TextureFilterTypes == {"TEXTURE_FILTER_LINEAR", "TEXTURE_FILTER_NEAREST"} \cup MipmapFilterTypes

ImageSides == 1..MaxImageSize

\* gl_core_filter_chain_load_lut: the levels of a lookup texture.
LoadLut ==
    /\ \E width \in ImageSides, height \in ImageSides, mipmap \in BOOLEAN :
          tex' = [made |-> "gl_core_filter_chain_load_lut", width |-> width,
                  height |-> height, mipmap |-> mipmap,
                  levels |-> IF mipmap THEN num_miplevels(width, height) ELSE 1]
    /\ UNCHANGED <<driverVars, ld, fed>>

\* video_texture_load_gl_core: the levels of a texture of the driver.
VideoTextureLoad ==
    /\ \E width \in ImageSides, height \in ImageSides, filter_type \in TextureFilterTypes :
          tex' = [made |-> "video_texture_load_gl_core", width |-> width,
                  height |-> height, mipmap |-> filter_type \in MipmapFilterTypes,
                  levels |-> IF filter_type \in MipmapFilterTypes
                                THEN num_miplevels_driver(width, height) ELSE 1]
    /\ UNCHANGED <<driverVars, ld, fed>>

MipNext ==
    \/ LoadLut
    \/ VideoTextureLoad

MipSpec == Init /\ [][MipNext]_vars

(***************************************************************************)
(* Every callback of the video driver table and of the poke interface, on  *)
(* one window and one video_info.                                          *)
(***************************************************************************)
GoodContext == [handle |-> TRUE, driver |-> TRUE, data |-> TRUE]

GlCoreAlive ==
    /\ ~crashed
    /\ drv.gl # << >>
    /\ \E report \in WindowReports :
          /\ drv' = gl_core_alive(Entering, report)
          /\ cb' = [Callback("gl_core_alive") EXCEPT !.report = report]
          /\ hist' = [hist EXCEPT !.quit = @ \/ report.quit]
    /\ UNCHANGED <<crashed, ld, fed, fc, tex>>

GlCoreSetNonblockState ==
    /\ ~crashed
    /\ drv.gl # << >>
    /\ \E state \in BOOLEAN : drv' = gl_core_set_nonblock_state(Entering, state)
    /\ cb' = Callback("gl_core_set_nonblock_state")
    /\ UNCHANGED <<hist, crashed, ld, fed, fc, tex>>

GlCoreSuppressScreensaver ==
    /\ ~crashed
    /\ drv.gl # << >>
    /\ \E enable \in BOOLEAN, answer \in BOOLEAN :
          drv' = gl_core_suppress_screensaver(Entering, enable, answer)
    /\ cb' = Callback("gl_core_suppress_screensaver")
    /\ UNCHANGED <<hist, crashed, ld, fed, fc, tex>>

GlCoreSetRotation ==
    /\ ~crashed
    /\ drv.gl # << >>
    /\ \E rotation \in Rotations : drv' = gl_core_set_rotation(Entering, rotation)
    /\ cb' = Callback("gl_core_set_rotation")
    /\ UNCHANGED <<hist, crashed, ld, fed, fc, tex>>

GlCoreViewportInfo ==
    /\ ~crashed
    /\ drv.gl # << >>
    /\ \E size \in Windows :
          /\ drv' = gl_core_viewport_info(Entering, size[1], size[2])
          /\ cb' = [Callback("gl_core_viewport_info") EXCEPT !.window = size]
    /\ UNCHANGED <<hist, crashed, ld, fed, fc, tex>>

\* gl_core_read_viewport: nothing is read back.
GlCoreReadViewport ==
    /\ ~crashed
    /\ drv.gl # << >>
    /\ drv' = [Entering EXCEPT !.result = FALSE]
    /\ cb' = Callback("gl_core_read_viewport")
    /\ UNCHANGED <<hist, crashed, ld, fed, fc, tex>>

\* gl_core_get_flags: the same three flags on every call.
GlCoreGetFlags ==
    /\ ~crashed
    /\ drv.gl # << >>
    /\ drv' = [Entering EXCEPT !.result =
                  {"GFX_CTX_FLAGS_CUSTOMIZABLE_SWAPCHAIN_IMAGES",
                   "GFX_CTX_FLAGS_BLACK_FRAME_INSERTION",
                   "GFX_CTX_FLAGS_MENU_FRAME_FILTERING"}]
    /\ cb' = Callback("gl_core_get_flags")
    /\ UNCHANGED <<hist, crashed, ld, fed, fc, tex>>

\* gl_core_get_refresh_rate: the context's rate, or 0 when it has none.
GlCoreGetRefreshRate ==
    /\ ~crashed
    /\ drv.gl # << >>
    /\ \E known \in BOOLEAN :
          drv' = [Log(Entering, Call("video_context_driver_get_refresh_rate", 0, FALSE,
                                     NullViewport, NoTexture))
                     EXCEPT !.result = IF known THEN 60 ELSE 0]
    /\ cb' = Callback("gl_core_get_refresh_rate")
    /\ UNCHANGED <<hist, crashed, ld, fed, fc, tex>>

GlCoreApplyStateChanges ==
    /\ ~crashed
    /\ drv.gl # << >>
    /\ drv' = gl_core_apply_state_changes(Entering)
    /\ cb' = Callback("gl_core_apply_state_changes")
    /\ UNCHANGED <<hist, crashed, ld, fed, fc, tex>>

\* gl_core_get_poke_interface: the address of the constant table.
GlCoreGetPokeInterface ==
    /\ ~crashed
    /\ drv.gl # << >>
    /\ drv' = [Entering EXCEPT !.result = "gl_core_poke_interface"]
    /\ cb' = Callback("gl_core_get_poke_interface")
    /\ UNCHANGED <<hist, crashed, ld, fed, fc, tex>>

TableInit == GlCoreInitWith({GoodContext}) /\ UNCHANGED fc
\* Most frames drawn on one handle under TableSpec.
TableFrames == 1

\* The frames drawn since gl_core_init stay within the bound.
TableFramesLeft == Len(hist.uploads) < TableFrames

TableFrame == TableFramesLeft /\ GlCoreFrameWith({BaseVideoInfo}, {BaseEnv}) /\ UNCHANGED fc
TableFrameNullChain ==
    TableFramesLeft /\ GlCoreFrameNullChainWith({BaseVideoInfo}, {BaseEnv})
    /\ UNCHANGED fc
TableSetShader ==
    GlCoreSetShaderWith({<<"RARCH_SHADER_NONE", 0>>, <<"RARCH_SHADER_SLANG", 1>>})
    /\ UNCHANGED fc
TableSetViewportWrapper ==
    GlCoreSetViewportWrapperWith({BaseVideoInfo}, {BaseEnv}) /\ UNCHANGED fc

TableNext ==
    \/ TableInit
    \/ TableFrame
    \/ TableFrameNullChain
    \/ GlCoreSetNonblockState
    \/ GlCoreAlive
    \/ GlCoreSuppressScreensaver
    \/ TableSetShader
    \/ GlCoreFree
    \/ TableSetViewportWrapper
    \/ GlCoreSetRotation
    \/ GlCoreViewportInfo
    \/ GlCoreReadViewport
    \/ GlCoreGetPokeInterface
    \/ GlCoreGetFlags
    \/ GlCoreGetRefreshRate
    \/ GlCoreSetAspectRatio
    \/ GlCoreApplyStateChanges
    \/ GlCoreGetCurrentShader

TableSpec == Init /\ [][TableNext]_vars

(***************************************************************************)
(* The texture ring under frames of two sizes.                             *)
(***************************************************************************)
RingFrameSizes == {<<256, 240>>, <<320, 240>>}

RingFrame ==
    /\ ~crashed
    /\ drv.gl # << >>
    /\ drv.gl[1].filter_chain # 0
    /\ \E size \in RingFrameSizes :
          /\ drv' = gl_core_frame(Entering, size[1], size[2], BaseVideoInfo, BaseEnv)
          /\ cb' = [Callback("gl_core_frame") EXCEPT !.frame = size]
    /\ hist' = FrameHistory(BaseVideoInfo)
    /\ UNCHANGED <<crashed, ld, fed, fc, tex>>

RingNext ==
    \/ TableInit
    \/ RingFrame
    \/ GlCoreFree

RingSpec == Init /\ [][RingNext]_vars

(***************************************************************************)
(* Claims about the preset loader (checked under LoaderSpec).              *)
(***************************************************************************)
\* The call has returned.
Returned == ld.pc \in {"done", "failed"}

\* Every collaborator answered with success.
AllAnswersOk ==
    /\ fed.confOk /\ fed.parseOk /\ fed.resolveOk /\ fed.initOk
    /\ \A k \in 1..Len(fed.lutsOk) : fed.lutsOk[k]
    /\ \A k \in 1..Len(fed.outputs) : fed.outputs[k].ok

\* The declarations the passes made, in the order the loader met them.
Decls == DeclsOf(fed.outputs)

SameFields(a, b) ==
    /\ a.desc = b.desc /\ a.initial = b.initial /\ a.minimum = b.minimum
    /\ a.maximum = b.maximum /\ a.step = b.step

\* Every two declarations of one id agree in their five fields.
DuplicatesAgree ==
    \A a \in 1..Len(Decls), b \in 1..Len(Decls) :
        (a < b /\ Decls[a].id = Decls[b].id) => SameFields(Decls[a], Decls[b])

DeclaredIds == {Decls[k].id : k \in 1..Len(Decls)}

\* C1 (as claimed): when nothing else fails and the preset declares no more
\* ids than the table holds, the preset is accepted if and only if every
\* declaration of an id already declared repeats the earlier declaration's
\* desc, initial, minimum, maximum and step.
C1_DuplicateAcceptedIffFieldsEqual ==
    (Returned /\ AllAnswersOk /\ Cardinality(DeclaredIds) <= GFX_MAX_PARAMETERS)
        => (ld.pc = "done" <=> DuplicatesAgree)

\* C4 (as claimed): after a successful load no two entries of the parameter
\* table have the same id.
C4_TableIdsUnique ==
    ld.pc = "done" =>
        LET preset == ld.ret[1].shader_preset[1]
        IN  \A a \in 1..preset.num_parameters, b \in 1..preset.num_parameters :
                a # b => preset.parameters[a].id # preset.parameters[b].id

\* The lookup textures added to the chain: those before the first failure.
LutsAdded ==
    Cardinality({k \in 1..Len(fed.lutsOk) : \A j \in 1..k : fed.lutsOk[j]})

\* The chain of the load, wherever it is now: being built, returned, or
\* destroyed.  Empty when no chain was created.
ChainOfLoad == ld.chain \o ld.ret \o ld.destroyed

\* C2: every failure exit returns null with the partial chain destroyed,
\* and the destroyed chain is the one holding the lookup textures and the
\* passes added so far; a chain is returned only when the file opened and
\* parsed, every lookup texture loaded, every pass compiled, the parameter
\* table stayed within its limit, the parameters resolved and init()
\* succeeded.
C2_FailureReturnsNullAndDestroys ==
    /\ ld.pc = "failed" =>
          /\ ld.ret = << >>
          /\ ld.chain = << >>
          /\ ld.error \in {"conf", "parse"} => ld.destroyed = << >>
          /\ ld.error \notin {"conf", "parse"} =>
                /\ Len(ld.destroyed) = 1
                /\ ld.destroyed[1].luts = LutsAdded
                /\ Len(ld.destroyed[1].passes) >= ld.i
                /\ \A k \in 1..ld.i : ld.destroyed[1].passes[k].has_info
    /\ (Returned /\ ~AllAnswersOk) => ld.pc = "failed"
    /\ ld.pc = "done" =>
          /\ Len(ld.ret) = 1
          /\ ld.ret[1].initialized
          /\ ld.ret[1].luts = ld.shader.luts
          /\ ld.destroyed = << >>
          /\ ld.shader.num_parameters <= GFX_MAX_PARAMETERS

\* C2 witness: a second pass declares a registered id with another minimum;
\* the load fails and the chain holding the first pass is destroyed.
C2_Witness ==
    /\ ld.pc = "failed" /\ ld.error = "mismatch" /\ ld.i = 1
    /\ Len(ld.destroyed) = 1 /\ ld.destroyed[1].passes[1].has_info
    /\ \E a \in 1..Len(Decls), b \in 1..Len(Decls) :
          /\ a < b /\ Decls[a].id = Decls[b].id
          /\ Decls[a].minimum # Decls[b].minimum

\* The loop over the preset's passes and the step after it have run.
PassesLoaded ==
    \/ ld.pc = "done"
    \/ ld.pc = "failed" /\ ld.error \in {"resolve", "init"}

\* C5: once the passes are loaded the chain holds exactly `passes` passes,
\* each with the compiled shaders of its preset pass, when the last preset
\* pass is not fbo.valid, and one more when it is: that one sits at index
\* `passes`, has the opaque pass-through shaders, scales from the viewport
\* by 1.0 on both axes and has render-target format 0.
C5_PassCount ==
    PassesLoaded =>
        LET n == Len(ld.shader.passes)
            chain == ChainOfLoad[1]
            extra == chain.passes[n + 1]
        IN  /\ n >= 1
            /\ \A k \in 1..n : /\ chain.passes[k].has_info
                                /\ chain.passes[k].vertex = "slang_vertex"
                                /\ chain.passes[k].fragment = "slang_fragment"
            /\ ~ld.shader.passes[n].fbo.valid => Len(chain.passes) = n
            /\ ld.shader.passes[n].fbo.valid =>
                  /\ Len(chain.passes) = n + 1
                  /\ extra.vertex = "opaque_vert"
                  /\ extra.fragment = "opaque_frag"
                  /\ extra.has_info
                  /\ extra.info.scale_type_x = "GL_CORE_FILTER_CHAIN_SCALE_VIEWPORT"
                  /\ extra.info.scale_type_y = "GL_CORE_FILTER_CHAIN_SCALE_VIEWPORT"
                  /\ extra.info.scale_x = FixOne
                  /\ extra.info.scale_y = FixOne
                  /\ extra.info.rt_format = "0"

\* C5 witness: a two-pass preset whose first pass is not fbo.valid and whose
\* last pass is loads into a chain of three passes.
C5_Witness ==
    /\ ld.pc = "done"
    /\ Len(ld.shader.passes) = 2
    /\ ~ld.shader.passes[1].fbo.valid
    /\ ld.shader.passes[2].fbo.valid
    /\ Len(ld.ret[1].passes) = 3

\* What the claim asks of one axis of an fbo.valid pass.
AxisAsAsked(type, scale, abs, info_type, info_scale) ==
    /\ type = "RARCH_SCALE_INPUT" =>
          info_type = "GL_CORE_FILTER_CHAIN_SCALE_SOURCE" /\ info_scale = scale
    /\ type = "RARCH_SCALE_ABSOLUTE" =>
          /\ info_type = "GL_CORE_FILTER_CHAIN_SCALE_ABSOLUTE"
          /\ info_scale = abs * FixOne
    /\ type = "RARCH_SCALE_VIEWPORT" =>
          info_type = "GL_CORE_FILTER_CHAIN_SCALE_VIEWPORT" /\ info_scale = scale

\* The preset of the scenario: pass 0 fbo.valid, Input x 2.0 on both axes;
\* pass 1 the last, not fbo.valid.
IsScenarioPreset(passes) ==
    /\ Len(passes) = 2
    /\ passes[1].fbo.valid
    /\ passes[1].fbo.type_x = "RARCH_SCALE_INPUT"
    /\ passes[1].fbo.type_y = "RARCH_SCALE_INPUT"
    /\ passes[1].fbo.scale_x = 2 * FixOne
    /\ passes[1].fbo.scale_y = 2 * FixOne
    /\ ~passes[2].fbo.valid

ScenarioSizes ==
    PassOutputSizes(ld.ret[1].passes, 1, [width |-> 256, height |-> 240],
                    [width |-> 1024, height |-> 768])

FrameOps ==
    {"gl_core_filter_chain_set_input_texture",
     "gl_core_filter_chain_build_offscreen_passes",
     "gl_core_filter_chain_build_viewport_pass",
     "gl_core_filter_chain_end_frame",
     "cb_swap_buffers"}

IsFrameOp(call) == call.op \in FrameOps

\* The names of the frame operations the callback made, in order.
FrameOpsMade ==
    LET made == SelectSeq(drv.calls, IsFrameOp)
    IN  [k \in 1..Len(made) |-> made[k].op]

\* gl_core_set_shader was asked for a slang preset.
SlangRequested == cb.type = "RARCH_SHADER_SLANG" /\ cb.path # 0

\* What creating the requested preset's chain gives.
RequestedChain ==
    gl_core_filter_chain_create_from_preset(PresetFiles[cb.path], ChainFilter(drv)).ret

\* C3 (as claimed): when gl_core_set_shader has returned, the handle holds
\* a live chain: the chain of the requested preset when a slang preset was
\* requested and its creation succeeded, the stock chain otherwise; the
\* call returned false exactly when a slang preset was requested and its
\* creation failed.
C3_SetShaderInstallsPresetOrStock ==
    cb.fn = "gl_core_set_shader" =>
        LET id == drv.gl[1].filter_chain
            created == SlangRequested /\ RequestedChain # << >>
        IN  /\ id # 0
            /\ drv.heap[id].frees = 0
            /\ created => drv.heap[id].chain = RequestedChain
            /\ ~created => drv.heap[id].chain = <<StockChain(ChainFilter(drv))>>
            /\ drv.result = ~(SlangRequested /\ RequestedChain = << >>)

\* C7 (as claimed): in every gl_core_frame call on a handle the chain
\* operations happen once each, in the order set_input_texture,
\* build_offscreen_passes, build_viewport_pass, end_frame, and the buffer
\* swap follows them.
C7_FrameOpsInOrder ==
    cb.fn = "gl_core_frame" =>
        FrameOpsMade = <<"gl_core_filter_chain_set_input_texture",
                         "gl_core_filter_chain_build_offscreen_passes",
                         "gl_core_filter_chain_build_viewport_pass",
                         "gl_core_filter_chain_end_frame",
                         "cb_swap_buffers">>

\* C8: the ring index stays in 0..3; each frame uploads into the slot the
\* index names and the index then advances by one modulo 4, whatever
\* set_shader and viewport calls come between the frames; so no two of any
\* four consecutive frames upload into the same slot, and the fifth frame
\* is the first to upload again into the slot of the first.
C8_TextureRing ==
    drv.gl # << >> =>
        LET index == drv.gl[1].textures_index
            uploads == hist.uploads
            n == Len(uploads)
        IN  /\ index \in 0..(GL_CORE_NUM_TEXTURES - 1)
            /\ n = 0 => index = 0
            /\ (n > 0 /\ ~crashed) => index = (uploads[n] + 1) % GL_CORE_NUM_TEXTURES
            /\ \A k \in 1..(n - 1) :
                  uploads[k + 1] = (uploads[k] + 1) % GL_CORE_NUM_TEXTURES
            /\ \A a \in 1..n, b \in 1..n :
                  (a < b /\ b - a < GL_CORE_NUM_TEXTURES) => uploads[a] # uploads[b]

\* C8 witness: five frames have run, the fifth uploading into the slot of
\* the first, and a set_shader call after them has left the index alone.
C8_Witness ==
    /\ drv.gl # << >>
    /\ hist.uploads = <<0, 1, 2, 3, 0>>
    /\ drv.gl[1].textures_index = 1
    /\ cb.fn = "gl_core_set_shader"

\* The viewport as the chain takes it.
ChainViewport(vp) == [x |-> vp.x, y |-> vp.y, width |-> vp.width, height |-> vp.height]

\* The calls of the latest callback that build passes.
BuildCalls ==
    {k \in 1..Len(drv.calls) :
        drv.calls[k].op \in {"gl_core_filter_chain_build_offscreen_passes",
                             "gl_core_filter_chain_build_viewport_pass"}}

\* C9: filter_chain_vp equals vp whenever gl_core_set_viewport has run, and
\* the viewport a frame hands to build_offscreen_passes and to
\* build_viewport_pass is the one gl_core_set_viewport computes from that
\* frame's window size: the whole window when neither the aspect ratio is
\* kept nor integer scaling is on.
C9_FrameBuildsOnFreshViewport ==
    drv.gl # << >> =>
        LET g == drv.gl[1]
            info == cb.video_info
            fresh == gl_core_set_viewport(g, info, info.width, info.height, FALSE,
                                          cb.env).vp
        IN  /\ g.filter_chain_vp = ChainViewport(g.vp)
            /\ cb.fn = "gl_core_frame" =>
                  \A k \in BuildCalls :
                      /\ drv.calls[k].vp = ChainViewport(fresh)
                      /\ (~g.keep_aspect /\ ~info.scale_integer) =>
                            drv.calls[k].vp = [x |-> 0, y |-> 0, width |-> info.width,
                                               height |-> info.height]

\* C9 witness: a frame in a 1920x1080 window follows a frame in an 800x600
\* window and builds its passes on the 1920x1080 viewport.
C9_Witness ==
    /\ cb.fn = "gl_core_frame" /\ ~crashed
    /\ hist.windows = <<(<<800, 600>>), (<<1920, 1080>>)>>
    /\ BuildCalls # {}
    /\ \A k \in BuildCalls :
          drv.calls[k].vp = [x |-> 0, y |-> 0, width |-> 1920, height |-> 1080]

\* The chains that are alive.
LiveChains == {id \in 1..Len(drv.heap) : drv.heap[id].frees = 0}

\* C10: at most one chain is alive, and it is the handle's; every other
\* chain created has been freed exactly once, its preset and passes with
\* it; no call is made on a chain that has been freed; and the calls of
\* gl_core_set_shader free the previous chain before they create one.
C10_OneChainFreedOnce ==
    /\ Cardinality(LiveChains) <= 1
    /\ \A id \in 1..Len(drv.heap) :
          /\ drv.heap[id].frees <= 1
          /\ drv.heap[id].frees = 1 => drv.heap[id].chain = << >>
          /\ drv.heap[id].frees = 0 =>
                drv.gl # << >> /\ drv.gl[1].filter_chain = id
    /\ \A k \in 1..Len(drv.calls) :
          drv.calls[k].chain # 0 => drv.calls[k].live
    /\ cb.fn = "gl_core_set_shader" =>
          \A j \in 1..Len(drv.calls), k \in 1..Len(drv.calls) :
              (/\ drv.calls[j].op = "gl_core_filter_chain_free"
               /\ drv.calls[k].op \in {"gl_core_filter_chain_create_from_preset",
                                        "gl_core_filter_chain_create_default"})
                  => j < k

\* C10 witness: gl_core_set_shader has freed the chain gl_core_init made
\* and installed a second one.
C10_Witness ==
    /\ cb.fn = "gl_core_set_shader"
    /\ Len(drv.heap) = 2
    /\ drv.heap[1].frees = 1
    /\ drv.heap[2].frees = 0
    /\ drv.gl[1].filter_chain = 2
    /\ drv.calls[1].op = "gl_core_filter_chain_free"
    /\ drv.calls[1].chain = 1

\* Does the filter-chain initialisation of the gl_core_init call that ran
\* last report failure?
InitChainReportsFailure ==
    LET handle == [NewHandle EXCEPT !.ctx_driver = TRUE]
        before == [NewWorld EXCEPT !.gl = <<handle>>]
    IN  ~gl_core_init_filter_chain(before, cb.type, cb.path, cb.answers.stockOk).result

\* One of the failures gl_core_init tests for occurred in the call that ran
\* last.
InitFailureCause ==
    \/ ~cb.answers.ctx.handle
    \/ ~cb.answers.ctx.driver
    \/ ~cb.answers.modeOk
    \/ cb.answers.identNull
    \/ InitChainReportsFailure

ContextDestroyed ==
    \E k \in 1..Len(drv.calls) : drv.calls[k].op = "video_context_driver_destroy"

\* What gl_core_init leaves when it fails as claimed: it has returned NULL,
\* the context is destroyed, the handle and every chain are released.
InitFailedCleanly ==
    /\ ~crashed
    /\ drv.result = FALSE
    /\ drv.gl = << >>
    /\ ContextDestroyed
    /\ LiveChains = {}

\* C11 (as claimed): gl_core_init returns NULL, destroys the context and
\* releases every driver resource already created whenever the handle or
\* the context cannot be obtained, the video mode cannot be set, the
\* context is the "null" context or filter-chain initialisation reports
\* failure; it returns a handle only when none of these occurred.
C11_InitFailureReleasesAll ==
    cb.fn = "gl_core_init" =>
        /\ InitFailureCause => InitFailedCleanly
        /\ ~InitFailureCause => (~crashed /\ drv.result = TRUE /\ drv.gl # << >>)

\* The same, leaving out the calls in which gl_core_get_context stores
\* through the null handle.
C11_ExceptNullHandleStore ==
    (cb.fn = "gl_core_init" /\ ~GetContextWritesNull(cb.answers.ctx)) =>
        /\ InitFailureCause => InitFailedCleanly
        /\ ~InitFailureCause => (~crashed /\ drv.result = TRUE /\ drv.gl # << >>)

\* The chain of the handle, 0 when there is no handle or no chain.
HandleChain(w) == IF w.gl = << >> THEN 0 ELSE w.gl[1].filter_chain

RECURSIVE Pow2(_)
Pow2(k) == IF k = 0 THEN 1 ELSE 2 * Pow2(k - 1)

\* ceil(log2(n)) and floor(log2(n)) for n >= 1.
CeilLog2(n) == CHOOSE k \in 0..n : Pow2(k) >= n /\ (k > 0 => Pow2(k - 1) < n)
FloorLog2(n) == CHOOSE k \in 0..n : Pow2(k) <= n /\ n < Pow2(k + 1)

\* C13 (as claimed): a texture made with mipmaps from an image of width w
\* and height h, both at least 1, gets ceil(log2(max(w, h))) + 1 levels, by
\* the filter chain's num_miplevels and by the driver's alike; without
\* mipmaps it gets 1.
C13_MipLevelsCeilLog2 ==
    tex.made # "none" =>
        tex.levels = IF tex.mipmap THEN CeilLog2(Max(tex.width, tex.height)) + 1 ELSE 1

\* C13 (amended): with mipmaps the texture gets floor(log2(max(w, h))) + 1
\* levels, which both implementations return; without mipmaps it gets 1.
C13_MipLevelsFloorLog2 ==
    /\ tex.made # "none" =>
          tex.levels = IF tex.mipmap THEN FloorLog2(Max(tex.width, tex.height)) + 1 ELSE 1
    /\ tex.made # "none" =>
          num_miplevels(tex.width, tex.height) = num_miplevels_driver(tex.width, tex.height)

\* C13 witness: a lookup texture with mipmaps made from a 5x3 image has 3
\* levels.
C13_Witness ==
    /\ tex.made = "gl_core_filter_chain_load_lut"
    /\ tex.mipmap
    /\ tex.width = 5 /\ tex.height = 3
    /\ tex.levels = 3

\* C14: every preset pass the loop has configured has the preset's alias
\* for its name when the alias is not empty, and the shader's declared name
\* otherwise; when it is fbo.valid its render-target format is the sRGB
\* format if srgb_fbo is set, else the float format if fp_fbo is set, and
\* the shader's declared format only when neither is; its source filter is
\* the preset's LINEAR or NEAREST when the preset names one, and the
\* driver's default filter only when the preset's filter is unspecified.
C14_PresetOverridesShader ==
    \A k \in 1..ld.i :
        LET pass == ld.shader.passes[k]
            meta == fed.outputs[k].meta
            made == ChainOfLoad[1].passes[k]
            declared == IF meta.rt_format = "SLANG_FORMAT_UNKNOWN"
                        THEN "SLANG_FORMAT_R8G8B8A8_UNORM" ELSE meta.rt_format
        IN  /\ made.name = IF pass.alias # "" THEN pass.alias ELSE meta.name
            /\ pass.fbo.valid =>
                  made.info.rt_format =
                      IF pass.fbo.srgb_fbo
                      THEN convert_glslang_format("SLANG_FORMAT_R8G8B8A8_SRGB")
                      ELSE IF pass.fbo.fp_fbo
                      THEN convert_glslang_format("SLANG_FORMAT_R16G16B16A16_SFLOAT")
                      ELSE convert_glslang_format(declared)
            /\ pass.filter = "RARCH_FILTER_LINEAR" =>
                  made.info.source_filter = "GL_CORE_FILTER_CHAIN_LINEAR"
            /\ pass.filter = "RARCH_FILTER_NEAREST" =>
                  made.info.source_filter = "GL_CORE_FILTER_CHAIN_NEAREST"
            /\ pass.filter = "RARCH_FILTER_UNSPEC" =>
                  made.info.source_filter = ld.filter

\* C14 witness: a loaded chain has a pass named by the preset's alias though
\* its shader declares a name, filtered NEAREST by the preset though the
\* driver's default is LINEAR.
C14_Witness ==
    /\ ld.pc = "done"
    /\ ld.filter = "GL_CORE_FILTER_CHAIN_LINEAR"
    /\ \E k \in 1..ld.i :
          /\ ld.shader.passes[k].alias = "alias"
          /\ fed.outputs[k].meta.name = "name"
          /\ ld.ret[1].passes[k].name = "alias"
          /\ ld.shader.passes[k].filter = "RARCH_FILTER_NEAREST"
          /\ ld.ret[1].passes[k].info.source_filter = "GL_CORE_FILTER_CHAIN_NEAREST"

\* C14 witness for the format: an fbo.valid pass with fp_fbo set, whose
\* shader declares another format, renders to the float format.
C14_FormatReached ==
    /\ ld.pc = "done"
    /\ \E k \in 1..ld.i :
          /\ ld.shader.passes[k].fbo.valid
          /\ ~ld.shader.passes[k].fbo.srgb_fbo
          /\ ld.shader.passes[k].fbo.fp_fbo
          /\ fed.outputs[k].meta.rt_format = "SLANG_FORMAT_R32_SFLOAT"
          /\ ld.ret[1].passes[k].info.rt_format = "GL_RGBA16F"

NearestToProduct(size, scale) ==
    CHOOSE n \in 0..(size * scale) :
        /\ 2 * n * FixOne - FixOne <= 2 * size * scale
        /\ 2 * size * scale < 2 * n * FixOne + FixOne

\* The source and viewport sizes set_pass_info is tried on.
TriedSources == {[width |-> 256, height |-> 240], [width |-> 3, height |-> 5]}
TriedViewports == {[width |-> 1024, height |-> 768]}

C17_OnePassReached ==
    /\ cb.fn = "gl_core_frame" /\ HandleChain(drv) # 0 /\ ~crashed
    /\ Len(drv.heap[HandleChain(drv)].chain[1].passes) = 1
    /\ Len(fc[HandleChain(drv)].executed) = 1
    /\ fc[HandleChain(drv)].executed[1].source.from = "input"

(***************************************************************************)
(* Claims about the whole callback table (checked under TableSpec).        *)
(***************************************************************************)
\* The operations of the filter chain's C interface.
ChainOperations ==
    {"gl_core_filter_chain_create_default",
     "gl_core_filter_chain_create_from_preset",
     "gl_core_filter_chain_free",
     "gl_core_filter_chain_get_preset",
     "gl_core_filter_chain_set_input_texture",
     "gl_core_filter_chain_build_offscreen_passes",
     "gl_core_filter_chain_build_viewport_pass",
     "gl_core_filter_chain_end_frame"}

\* The callback that just returned made no chain operation, and the chains
\* and gl->filter_chain are as they were before it.
ChainNotAccessed ==
    /\ drv'.heap = drv.heap
    /\ drv'.gl # << >> /\ drv.gl # << >> => drv'.gl[1].filter_chain = drv.gl[1].filter_chain
    /\ \A k \in 1..Len(drv'.calls) : drv'.calls[k].op \notin ChainOperations

\* The callback that just returned is none of those named.
CallbackOutside(callbacks) == cb'.fn \notin callbacks

C18_ShaderRead ==
    /\ cb.fn = "gl_core_get_current_shader"
    /\ \E k \in 1..Len(drv.calls) :
          drv.calls[k].op = "gl_core_filter_chain_get_preset" /\ drv.calls[k].live

(***************************************************************************)
(* Claims about the chain the handle holds (checked under Spec).           *)
(***************************************************************************)
\* The chain operations gl_core_frame made, in order.
FrameChainCalls ==
    SelectSeq(drv.calls, LAMBDA call : call.op \in FrameOps \ {"cb_swap_buffers"})

\* C19 (as claimed): in every gl_core_frame call on a handle gl_core_init
\* returned, after any gl_core_set_shader calls and whatever preset and
\* stock creation answered, the gl->filter_chain passed to the chain
\* operations is not NULL.
C19_FrameChainNeverNull ==
    cb.fn = "gl_core_frame" =>
        \A k \in 1..Len(FrameChainCalls) : FrameChainCalls[k].chain # 0

(***************************************************************************)
(* Claims about presets without passes (checked under AnyPresetSpec).      *)
(***************************************************************************)
\* The file opened and parsed, and the preset read from it has no passes.
ZeroPassesParsed ==
    /\ ld.pc # "start"
    /\ ld.error \notin {"conf", "parse"}
    /\ ld.shader.passes = << >>

\* C20 (as claimed): for a preset that parsed with zero passes the loader
\* reads no pass entry outside 0..passes-1, in particular not pass[passes-1]
\* with the index wrapped around, and it configures no preset pass: the
\* loop has run zero times and no pass of the chain holds compiled shaders.
C20_ZeroPassesReadInRange ==
    ZeroPassesParsed =>
        /\ \A k \in 1..Len(ld.reads) : ld.reads[k] < Len(ld.shader.passes)
        /\ ld.pc # "fault"
        /\ ld.i = 0
        /\ \A c \in 1..Len(ChainOfLoad) : \A k \in 1..Len(ChainOfLoad[c].passes) :
              ChainOfLoad[c].passes[k].vertex # "slang_vertex"

(***************************************************************************)
(* Claims about the parameter table (checked under LoaderSpec).            *)
(***************************************************************************)
\* The load was rejected because the parameter table was full.
RejectedForLimit == ld.pc = "failed" /\ ld.error = "limit"

\* C21 (as claimed): num_parameters never exceeds GFX_MAX_PARAMETERS, and
\* the preset is rejected for exceeding the parameter limit exactly when it
\* declares more than GFX_MAX_PARAMETERS distinct ids: a rejection for the
\* limit means more distinct ids than the table holds, and a load that
\* declared that many ids with everything else in order is rejected for
\* the limit.
C21_LimitIffTooManyIds ==
    /\ ld.shader.num_parameters <= GFX_MAX_PARAMETERS
    /\ RejectedForLimit => Cardinality(DeclaredIds) > GFX_MAX_PARAMETERS
    /\ (Returned /\ AllAnswersOk /\ DuplicatesAgree
            /\ Cardinality(DeclaredIds) > GFX_MAX_PARAMETERS) => RejectedForLimit

\* C21: the table is full and the declaration that was rejected for the
\* limit repeats, field by field, a declaration made before it.
C21_DuplicateRejectedOnFullTable ==
    /\ RejectedForLimit
    /\ ld.shader.num_parameters = GFX_MAX_PARAMETERS
    /\ Cardinality(DeclaredIds) = GFX_MAX_PARAMETERS
    /\ \E a \in 1..(Len(Decls) - 1) : Decls[a] = Decls[Len(Decls)]

\* C21: the bound on num_parameters alone.
C21_TableWithinLimit == ld.shader.num_parameters <= GFX_MAX_PARAMETERS

\* The passes have been loaded so far without a rejection.
LoadingOrLoaded == ld.pc \in {"passes", "finish", "done"}

\* The declarations of the passes loaded so far, pass by pass, against the
\* add_parameter calls the chain received for the pass: one call per
\* declaration, in order, with the declared id.
OneCallPerDeclaration ==
    \A k \in 1..Len(fed.outputs) :
        LET declared == fed.outputs[k].meta.parameters
            added == ChainOfLoad[1].passes[k].parameters
        IN  /\ Len(added) = Len(declared)
            /\ \A j \in 1..Len(declared) : added[j].id = declared[j].id

\* Every add_parameter call names an entry of the table, and that entry
\* holds the id of the call.  `ids` are the ids looked at.
CallsNameTheirEntry(ids) ==
    \A k \in 1..Len(ChainOfLoad[1].passes) :
        \A j \in 1..Len(ChainOfLoad[1].passes[k].parameters) :
            LET call == ChainOfLoad[1].passes[k].parameters[j]
            IN  call.id \in ids =>
                    /\ call.index < ld.shader.num_parameters
                    /\ ld.shader.parameters[call.index + 1].id = call.id

\* Before the current values are resolved every entry has current equal to
\* initial.
CurrentIsInitial ==
    ld.pc \in {"passes", "finish"} =>
        \A k \in 1..ld.shader.num_parameters :
            ld.shader.parameters[k].current = ld.shader.parameters[k].initial

\* C22 (as claimed): for every declaration the loader accepted,
\* add_parameter(i, idx, id) was called exactly once, with idx below
\* num_parameters and parameters[idx].id equal to the declared id, whether
\* the declaration registered an entry or matched one; a registered entry
\* has current equal to initial.
C22_AddParameterNamesEntry ==
    LoadingOrLoaded =>
        /\ OneCallPerDeclaration
        /\ CallsNameTheirEntry(DeclaredIds)
        /\ CurrentIsInitial

\* C22, for the ids that fit the id field of the table.
C22_ForIdsThatFit ==
    LoadingOrLoaded =>
        /\ OneCallPerDeclaration
        /\ CallsNameTheirEntry({id \in DeclaredIds : Len(id) < IdSize})
        /\ CurrentIsInitial

(***************************************************************************)
(* Claims about the mip levels of a pass (checked under LoaderSpec).       *)
(***************************************************************************)
\* Preset pass k (counted from 1) has a next pass and that pass asks for
\* mipmapped input.
NextPassWantsMipmap(k) ==
    k < Len(ld.shader.passes) /\ ld.shader.passes[k + 1].mipmap

\* C23: every preset pass loaded so far has max_levels ~0u when the next
\* pass exists and asks for mipmapped input and 1 otherwise, and mip_filter
\* linear exactly when its filter is not RARCH_FILTER_NEAREST and max_levels
\* is above 1; so the last preset pass has max_levels 1 and mip_filter
\* nearest.
C23_MaxLevelsFollowNextPass ==
    LoadingOrLoaded =>
        \A k \in 1..ld.i :
            LET info == ChainOfLoad[1].passes[k].info
                pass == ld.shader.passes[k]
            IN  /\ info.max_levels = (IF NextPassWantsMipmap(k) THEN UINT_MAX ELSE 1)
                /\ info.mip_filter = "GL_CORE_FILTER_CHAIN_LINEAR"
                      <=> (pass.filter # "RARCH_FILTER_NEAREST" /\ info.max_levels > 1)
                /\ info.mip_filter \in {"GL_CORE_FILTER_CHAIN_LINEAR",
                                        "GL_CORE_FILTER_CHAIN_NEAREST"}
                /\ k = Len(ld.shader.passes) =>
                      /\ info.max_levels = 1
                      /\ info.mip_filter = "GL_CORE_FILTER_CHAIN_NEAREST"

\* C23 witness: a loaded two-pass preset whose second pass asks for
\* mipmapped input and whose first does not: the first pass has no limit on
\* its levels and the linear mip filter, the last has one level.
C23_Witness ==
    /\ ld.pc = "done"
    /\ Len(ld.shader.passes) = 2
    /\ ld.shader.passes[2].mipmap
    /\ ~ld.shader.passes[1].mipmap
    /\ ld.ret[1].passes[1].info.max_levels = UINT_MAX
    /\ ld.ret[1].passes[1].info.mip_filter = "GL_CORE_FILTER_CHAIN_LINEAR"
    /\ ld.ret[1].passes[2].info.max_levels = 1

\* C23: a nearest-filtered pass before a pass that asks for mipmapped input
\* has no limit on its levels and the nearest mip filter.
C23_NearestReached ==
    /\ ld.pc = "done"
    /\ Len(ld.shader.passes) = 2
    /\ ld.shader.passes[1].filter = "RARCH_FILTER_NEAREST"
    /\ ld.ret[1].passes[1].info.max_levels = UINT_MAX
    /\ ld.ret[1].passes[1].info.mip_filter = "GL_CORE_FILTER_CHAIN_NEAREST"

(***************************************************************************)
(* Claims about the upload into the ring (checked under RingSpec).         *)
(***************************************************************************)
\* The latest callback made a call `op` on texture `texture`.
TextureCall(calls, op, texture) ==
    \E k \in 1..Len(calls) : calls[k].op = op /\ calls[k].texture = texture

\* The latest callback made a call `op`.
MadeCall(calls, op) == \E k \in 1..Len(calls) : calls[k].op = op

\* What the claim says of one gl_core_frame step, from the handle before it
\* (`old`), the handle after it (`new`), the frame's size and the calls made.
UploadAsClaimed(old, new, size, calls) ==
    LET slot == old.textures_index
        before == old.textures[slot]
        after == new.textures[slot]
        differs == size[1] # before.width \/ size[2] # before.height
    IN  /\ after.width = size[1]
        /\ after.height = size[2]
        /\ differs <=> MadeCall(calls, "glGenTextures")
        /\ ~differs => after.tex = before.tex
        /\ (differs /\ before.tex # 0)
              <=> TextureCall(calls, "glDeleteTextures", before)
        /\ MadeCall(calls, "glDeleteTextures") => MadeCall(calls, "glGenTextures")
        /\ after.tex # 0
        /\ \A other \in DOMAIN old.textures :
              other # slot =>
                  /\ new.textures[other] = old.textures[other]
                  /\ new.textures[other].tex # after.tex
        /\ TextureCall(calls, "gl_core_filter_chain_set_input_texture",
                       [tex |-> after.tex, width |-> size[1], height |-> size[2]])

\* C24: a gl_core_frame call leaves the slot it uploads into with the
\* frame's width and height; the slot's texture is deleted (when there is
\* one) and made anew exactly when the frame's size differs from the size
\* the slot recorded, and is kept otherwise; the other slots stay as they
\* were; and set_input_texture receives the slot's texture with the frame's
\* size.
C24_UploadIntoSlot ==
    [][cb'.fn = "gl_core_frame" =>
          UploadAsClaimed(drv.gl[1], drv'.gl[1], cb'.frame, drv'.calls)]_vars

\* C24 witness: the ring has gone round, the latest frame went into the
\* slot of the first with another size and the slot's texture was made
\* anew, while another slot keeps a frame of the first size.
C24_Witness ==
    /\ cb.fn = "gl_core_frame"
    /\ hist.uploads = <<0, 1, 2, 3, 0>>
    /\ cb.frame = <<320, 240>>
    /\ drv.gl[1].textures[0].width = 320
    /\ drv.gl[1].textures[1].width = 256
    /\ MadeCall(drv.calls, "glDeleteTextures")
    /\ MadeCall(drv.calls, "glGenTextures")

\* C24: a frame of the slot's size has gone into a slot that held a
\* texture, and the texture was kept.
C24_KeptReached ==
    /\ cb.fn = "gl_core_frame"
    /\ Len(hist.uploads) = GL_CORE_NUM_TEXTURES + 1
    /\ ~MadeCall(drv.calls, "glGenTextures")
    /\ ~MadeCall(drv.calls, "glDeleteTextures")

(***************************************************************************)
(* Claims about gl_core_alive (checked under TableSpec).                   *)
(***************************************************************************)
\* C25: on a handle, gl_core_alive returns false in the call in which
\* check_window reports quit and in every call after it, whatever callbacks
\* come between, and true in every call before: quitting is set exactly
\* when a quit has been reported since gl_core_init made the handle, and
\* gl_core_alive returns its negation.
C25_QuitIsKept ==
    drv.gl # << >> =>
        /\ drv.gl[1].quitting = hist.quit
        /\ cb.fn = "gl_core_alive" => drv.result = ~hist.quit
        /\ (cb.fn = "gl_core_alive" /\ cb.report.quit) => drv.result = FALSE

\* C25 witness: gl_core_alive has returned false on a report without quit,
\* on a handle on which a quit was reported in an earlier call.
C25_Witness ==
    /\ drv.gl # << >>
    /\ cb.fn = "gl_core_alive"
    /\ ~cb.report.quit
    /\ cb.report.resize
    /\ hist.quit
    /\ drv.result = FALSE

\* C25: gl_core_alive has returned true on a handle that has drawn a frame
\* and been told to resize.
C25_AliveReached ==
    /\ drv.gl # << >>
    /\ cb.fn = "gl_core_alive"
    /\ ~hist.quit
    /\ drv.gl[1].should_resize
    /\ Len(hist.uploads) > 0
    /\ drv.result = TRUE

(***************************************************************************)
(* Claims about the viewport (checked under ViewSpec).                     *)
(***************************************************************************)
\* What the claim says of one gl_core_set_viewport call, from the handle
\* before it (`old`), the handle after it (`new`), the requested size and
\* force_full.
ViewportAsClaimed(old, new, width, height, force_full) ==
    /\ force_full =>
          /\ new.vp = [x |-> 0, y |-> 0, width |-> width, height |-> height]
          /\ new.vp_out_width = old.vp_out_width
          /\ new.vp_out_height = old.vp_out_height
    /\ ~force_full =>
          /\ new.vp_out_width = new.vp.width
          /\ new.vp_out_height = new.vp.height

\* C26: gl_core_set_viewport with force_full leaves the viewport at x = 0,
\* y = 0 with the requested width and height, whatever keep_aspect,
\* scale_integer and the custom viewport say, and leaves vp_out_width and
\* vp_out_height as they were; without force_full they become the width and
\* height of the viewport the call ends with.  gl_core_frame calls it
\* without force_full.
C26_ForceFullViewport ==
    [][/\ cb'.fn = "gl_core_set_viewport_wrapper" =>
             ViewportAsClaimed(drv.gl[1], drv'.gl[1], cb'.video_info.width,
                               cb'.video_info.height, cb'.force_full)
       /\ (cb'.fn = "gl_core_frame" /\ ~crashed') =>
             ViewportAsClaimed(drv.gl[1], drv'.gl[1], cb'.video_info.width,
                               cb'.video_info.height, FALSE)]_vars

\* C26 witness: a forced full viewport on a handle that keeps the aspect,
\* under a custom viewport, after a call that left another backbuffer size.
C26_Witness ==
    /\ cb.fn = "gl_core_set_viewport_wrapper"
    /\ cb.force_full
    /\ cb.video_info.custom
    /\ drv.gl[1].keep_aspect
    /\ drv.gl[1].vp = [x |-> 0, y |-> 0, width |-> 800, height |-> 600]
    /\ drv.gl[1].vp_out_width # 800
    /\ drv.gl[1].vp_out_width # 0

\* C26: the same under scale_integer.
C26_ScaleIntegerReached ==
    /\ cb.fn = "gl_core_set_viewport_wrapper"
    /\ cb.force_full
    /\ cb.video_info.scale_integer
    /\ drv.gl[1].vp = [x |-> 0, y |-> 0, width |-> 800, height |-> 600]
    /\ drv.gl[1].vp_out_width # 800
    /\ drv.gl[1].vp_out_width # 0

\* C26: without force_full the custom viewport is taken and recorded.
C26_CustomReached ==
    /\ cb.fn = "gl_core_set_viewport_wrapper"
    /\ ~cb.force_full
    /\ cb.video_info.custom
    /\ drv.gl[1].keep_aspect
    /\ drv.gl[1].vp.x = cb.video_info.custom_vp_x
    /\ drv.gl[1].vp_out_width = cb.video_info.custom_vp_width

(***************************************************************************)
(* The viewport read back (InfoSpec): the callbacks that store a viewport, *)
(* on every video_info drawn, and gl_core_viewport_info under every window *)
(* size video_driver_get_size can answer.  The frontend's size follows     *)
(* the window (gl_core_alive hands it what check_window found), the stored *)
(* viewport follows the last frame or gl_core_set_viewport_wrapper call.   *)
(***************************************************************************)
\* A frame on any video_info drawn, while frames are left.
InfoFrame == TableFramesLeft /\ ViewFrame

InfoNext ==
    \/ TableInit
    \/ InfoFrame
    \/ ViewSetViewportWrapper
    \/ GlCoreSetAspectRatio
    \/ GlCoreViewportInfo

InfoSpec == Init /\ [][InfoNext]_vars

\* C27: the y gl_core_viewport_info returns lies in 0..full_height for
\* every viewport the driver can store.
C27_ReturnedYInWindow ==
    cb.fn = "gl_core_viewport_info" =>
        /\ drv.result.y >= 0
        /\ drv.result.y <= drv.result.full_height

\* C27: a stored viewport taller than the window comes back with the y the
\* wrapped unsigned difference gives as an int, below zero.
C27_WrapReached ==
    /\ cb.fn = "gl_core_viewport_info"
    /\ cb.window = <<800, 600>>
    /\ drv.gl[1].vp = [x |-> 0, y |-> 0, width |-> 1920, height |-> 1080]
    /\ drv.result.y = 0 - 480

\* C27: the rest of the claim.  gl_core_viewport_info returns the stored
\* viewport with full_width and full_height set to the window size and y
\* counted from the top, and leaves the handle as it was.
C27_CopyOfStoredViewport ==
    [][cb'.fn = "gl_core_viewport_info" =>
          /\ drv'.gl = drv.gl
          /\ drv'.result.x = drv.gl[1].vp.x
          /\ drv'.result.width = drv.gl[1].vp.width
          /\ drv'.result.height = drv.gl[1].vp.height
          /\ drv'.result.full_width = cb'.window[1]
          /\ drv'.result.full_height = cb'.window[2]
          /\ drv'.result.y =
                 cb'.window[2] - (drv.gl[1].vp.y + drv.gl[1].vp.height)]_vars

\* C27: in a window of the size the viewport was stored for, the returned y
\* lies in the window.
C27_InRangeReached ==
    /\ cb.fn = "gl_core_viewport_info"
    /\ cb.window = <<800, 600>>
    /\ drv.gl[1].vp.width = 800
    /\ drv.gl[1].vp.y > 0
    /\ drv.result.y > 0
    /\ drv.result.y < 600

\* C27: the same after a frame drawn in the larger window, read back once
\* the window is smaller.
C27_WrapAfterFrame ==
    /\ cb.fn = "gl_core_viewport_info"
    /\ cb.window = <<800, 600>>
    /\ hist.windows = <<(<<1920, 1080>>)>>
    /\ drv.gl[1].vp.height = 1080
    /\ drv.result.y < 0
====
